---- MODULE Spec2Model ----
(***************************************************************************)
(* A model of beartype's type-hint checking engine:                        *)
(*   - the memoizing decorator callable_cached                             *)
(*     (beartype/_util/cache/utilcachecall.py),                            *)
(*   - the hint reducer reduce_hint (beartype/_check/conv/convreduce.py),  *)
(*   - the container check of the sign logic                               *)
(*     (beartype/_check/logic/logiccls.py) and the violation cause finders *)
(*     (beartype/_check/error/_pep/pep484585/errpep484585sequence.py),     *)
(*   - the memoized registrar of the beartypistry                          *)
(*     (beartype/_decor/_typistry.py).                                     *)
(* SpecCache runs the memoized wrapper of one pure callable; SpecReduce    *)
(* runs reduce_hint over a finite universe of hints; SpecCause checks one  *)
(* pith against one hint and searches the cause of the violation; SpecRace *)
(* runs two concurrent calls of the memoized wrapper, statement by         *)
(* statement; SpecTypistry runs register_typistry_type through its        *)
(* memoized wrapper.                                                       *)
(***************************************************************************)
EXTENDS Integers, Sequences, FiniteSets, TLC

VARIABLES
    \* ---- callable_cached ----
    func_param_kinds,            \* the kinds of the parameters func accepts
    wrapper,                     \* "none", "ready" (returned) or "raised"
    params_flat_to_return_value, \* dict: flattened parameters -> returned value
    params_flat_to_exception,    \* dict: flattened parameters -> raised exception
    func_graph,                  \* the part of the pure callable seen so far
    n_calls,                     \* calls of the wrapper made so far
    n_invoked,                   \* calls of the wrapped callable made so far
    invoked_by_key,              \* flattened parameters -> calls of the callable
    last,                        \* what the last call of the wrapper did
    \* ---- reduce_hint ----
    red,                         \* what the last call of reduce_hint did
    \* ---- type check and violation cause ----
    cause,                       \* the input cause: pith, hint, random integer
    checked,                     \* what the generated check of the pith did
    found,                       \* what the search of the cause returned
    \* ---- two concurrent calls of the wrapper ----
    racing,                      \* the call both callers make, and func's body
    th,                          \* caller -> position and local variables
    \* ---- beartypistry ----
    bear_typistry                \* dict: name of a hint -> the hint

cache_vars == <<func_param_kinds, wrapper,
                params_flat_to_return_value, params_flat_to_exception,
                func_graph, n_calls, n_invoked, invoked_by_key, last>>
reduce_vars == <<red>>
cause_vars == <<cause, checked, found>>
race_vars == <<racing, th>>
typistry_vars == <<bear_typistry>>
vars == <<func_param_kinds, wrapper,
          params_flat_to_return_value, params_flat_to_exception,
          func_graph, n_calls, n_invoked, invoked_by_key, last, red,
          cause, checked, found, racing, th, bear_typistry>>

(***************************************************************************)
(* Bounds of the model.                                                    *)
(***************************************************************************)
\* Calls of the memoized wrapper in one behaviour.
MaxCalls == 2
\* Items of a list or tuple pith.
MaxLen == 3

(***************************************************************************)
(* Python objects.  An object is a record [tag, items]: a tuple has the    *)
(* tag "tuple" and its items; any other object has its own tag and no      *)
(* items.  Two objects are the same dictionary key when they are equal.    *)
(***************************************************************************)
Atom(t) == [tag |-> t, items |-> <<>>]
Tuple(s) == [tag |-> "tuple", items |-> s]

\* The objects passed as arguments: a hashable object, an unhashable list,
\* and the hashable tuple (a, a).
ObjA == Atom("a")
ObjList == Atom("list")
ObjTupleAA == Tuple(<<ObjA, ObjA>>)
\* The value a parameter takes when the call does not pass it.
ObjDefault == Atom("default")

\* The wrapped callable is  def func(p=default, q=default).
ParamNames == <<"p", "q">>
\* The values the calls pass for p and for q.
PValues == {ObjA, ObjList, ObjTupleAA}
QValues == {ObjA}

\* hash(obj): raises TypeError for a list and for a tuple holding one.
RECURSIVE IsHashable(_)
IsHashable(obj) ==
    IF obj.tag = "list" THEN FALSE
    ELSE \A i \in 1..Len(obj.items) : IsHashable(obj.items[i])

\* _SENTINEL_KWARGS_KEYS and _SENTINEL_KWARGS_VALUES: one-item tuples, each
\* holding an Iota() object of its own.
SENTINEL_KWARGS_KEYS == <<Atom("Iota_keys")>>
SENTINEL_KWARGS_VALUES == <<Atom("Iota_values")>>

(***************************************************************************)
(* Calls.  A call is [args, kwargs]: the positional arguments and the      *)
(* keyword arguments as the sequence of <<name, value>> in the order       *)
(* passed (a Python dict keeps insertion order).                           *)
(***************************************************************************)
KwSeqs ==
    {<<>>}
    \cup {<<<<"p", v>>>> : v \in PValues}
    \cup {<<<<"q", w>>>> : w \in QValues}
    \cup {<<<<"p", v>>, <<"q", w>>>> : v \in PValues, w \in QValues}
    \cup {<<<<"q", w>>, <<"p", v>>>> : v \in PValues, w \in QValues}

ArgSeqs ==
    {<<>>} \cup {<<v>> : v \in PValues}
           \cup {<<v, w>> : v \in PValues, w \in QValues}

\* Every call passing at most as many arguments as func has parameters.
Calls ==
    {c \in [args : ArgSeqs, kwargs : KwSeqs] :
        Len(c.args) + Len(c.kwargs) <= Len(ParamNames)}

KwNames(kwargs) == [i \in 1..Len(kwargs) |-> Atom(kwargs[i][1])]
KwVals(kwargs) == [i \in 1..Len(kwargs) |-> kwargs[i][2]]

(***************************************************************************)
(* The wrapped callable: a pure callable  def func(p=default, q=default).  *)
(* Its body is any function of the two parameter values; func_graph is the *)
(* part of that function the behaviour has looked at.                      *)
(***************************************************************************)
ReturnValues == {"r1", "r2"}
\* Failures the body raises: subclasses of Exception, the failures that the
\* clause  except Exception  of the wrapper catches.
ExceptionKinds == {"ValueError", "TypeError"}
BodyOutcomes == ReturnValues \cup ExceptionKinds

\* Python binds the positional arguments to p, q in order; a keyword naming a
\* parameter already bound by position is a TypeError raised by the call.
ParamIndex(name) == IF name = ParamNames[1] THEN 1 ELSE 2

BindsOk(call) ==
    /\ Len(call.args) <= Len(ParamNames)
    /\ \A i \in 1..Len(call.kwargs) :
           ParamIndex(call.kwargs[i][1]) > Len(call.args)

ParamValue(call, j) ==
    IF j <= Len(call.args) THEN call.args[j]
    ELSE IF \E i \in 1..Len(call.kwargs) : ParamIndex(call.kwargs[i][1]) = j
         THEN LET i == CHOOSE i \in 1..Len(call.kwargs) :
                           ParamIndex(call.kwargs[i][1]) = j
              IN call.kwargs[i][2]
         ELSE ObjDefault

Bind(call) == [p |-> ParamValue(call, 1), q |-> ParamValue(call, 2)]

\* An outcome: a returned value, or a raised exception object.  The id of an
\* exception object is the number of the call of func that created it.
Returned(value) == [kind |-> "return", what |-> value, id |-> 0]
Raised(exc, id) == [kind |-> "raise", what |-> exc, id |-> id]
NoOutcome == [kind |-> "none", what |-> "none", id |-> 0]

\* func(args, kwargs), as invocation number id, where the body maps the
\* bound parameters to `body`.
FuncCall(call, body, id) ==
    IF ~BindsOk(call) THEN Raised("TypeError", id)
    ELSE IF body \in ReturnValues THEN Returned(body)
    ELSE Raised(body, id)

(***************************************************************************)
(* _callable_cached(args, kwargs): the flattened parameters.            *)
(***************************************************************************)
\* A variant that puts the keyword arguments in the order of the parameters.
ParamsFlatSortedKw(call) ==
    LET kwargs == IF /\ Len(call.kwargs) = 2
                     /\ ParamIndex(call.kwargs[1][1]) >
                           ParamIndex(call.kwargs[2][1])
                  THEN <<call.kwargs[2], call.kwargs[1]>>
                  ELSE call.kwargs
    IN  IF kwargs # <<>>
        THEN Tuple(call.args
                   \o SENTINEL_KWARGS_KEYS \o KwNames(kwargs)
                   \o SENTINEL_KWARGS_VALUES \o KwVals(kwargs))
        ELSE IF Len(call.args) = 1 THEN call.args[1]
        ELSE Tuple(call.args)

ParamsFlat(call) ==
    IF call.kwargs # <<>>
    THEN Tuple(call.args
               \o SENTINEL_KWARGS_KEYS \o KwNames(call.kwargs)
               \o SENTINEL_KWARGS_VALUES \o KwVals(call.kwargs))
    ELSE IF Len(call.args) = 1 THEN call.args[1]
    ELSE Tuple(call.args)

\* dict[key] = value
DictSet(dict, key, value) == [k \in DOMAIN dict \cup {key} |->
                                 IF k = key THEN value ELSE dict[k]]

(***************************************************************************)
(* The body of _callable_cached from the lookup on: what one call of the   *)
(* wrapper does to the two dictionaries, how often it calls func, and what *)
(* it hands to its caller.  `body` is the outcome of func's body for the   *)
(* parameters of this call.                                                *)
(***************************************************************************)
Step(path, outcome, invoked, returns, exceptions) ==
    [path |-> path, outcome |-> outcome, invoked |-> invoked,
     returns |-> returns, exceptions |-> exceptions]

\* A variant without the except TypeError clause: the TypeError reaches the
\* caller.
FallbackSurfaces(path, call, body, already, returns, exceptions) ==
    Step(path, Raised("TypeError", 0), already, returns, exceptions)

\* except TypeError: return func(args, kwargs)
Fallback(path, call, body, already, returns, exceptions) ==
    Step(path, FuncCall(call, body, n_invoked + already + 1), already + 1,
         returns, exceptions)

\* The inner try: call func and cache what it returns or raises.
CacheMiss(call, body) ==
    LET params_flat == ParamsFlat(call)
        first == FuncCall(call, body, n_invoked + 1)
    IN  IF first.kind = "return"
        THEN Step("miss_return", first, 1,
                  DictSet(params_flat_to_return_value, params_flat, first.what),
                  params_flat_to_exception)
        ELSE LET stored == DictSet(params_flat_to_exception, params_flat,
                                   [what |-> first.what, id |-> first.id])
             IN  IF first.what = "TypeError"
                 THEN Fallback("miss_raise_retried", call, body, 1,
                               params_flat_to_return_value, stored)
                 ELSE Step("miss_raise", first, 1,
                           params_flat_to_return_value, stored)

\* A variant without the lookups: func is called and its outcome stored at
\* every call.
LookupRecompute(call, body) == CacheMiss(call, body)

\* The lookups of a hashable key, then the call of func on a miss.
Lookup(call, body) ==
    LET params_flat == ParamsFlat(call)
    IN  IF params_flat \in DOMAIN params_flat_to_exception
        THEN LET exception == params_flat_to_exception[params_flat]
             IN  IF exception.what = "TypeError"
                 THEN Fallback("hit_raise_retried", call, body, 0,
                               params_flat_to_return_value,
                               params_flat_to_exception)
                 ELSE Step("hit_raise", Raised(exception.what, exception.id), 0,
                           params_flat_to_return_value,
                           params_flat_to_exception)
        ELSE IF params_flat \in DOMAIN params_flat_to_return_value
        THEN Step("hit_return",
                  Returned(params_flat_to_return_value[params_flat]), 0,
                  params_flat_to_return_value, params_flat_to_exception)
        ELSE CacheMiss(call, body)

\* dict.get(params_flat, SENTINEL) hashes the key: an unhashable key raises
\* TypeError inside the try, which the except TypeError clause handles.
CallableCached(call, body) ==
    IF ~IsHashable(ParamsFlat(call))
    THEN Fallback("unhashable", call, body, 0,
                  params_flat_to_return_value, params_flat_to_exception)
    ELSE Lookup(call, body)

(***************************************************************************)
(* callable_cached(func): the decorator.                                   *)
(***************************************************************************)
\* The kinds of parameter the decorator does not support.
PARAM_KINDS_UNSUPPORTED == {"VAR_KEYWORD", "VAR_POSITIONAL"}

ParamKindSets ==
    {{"POSITIONAL_OR_KEYWORD"} \cup v : v \in SUBSET PARAM_KINDS_UNSUPPORTED}

is_func_arg_variadic(kinds) == kinds \cap PARAM_KINDS_UNSUPPORTED # {}

\* A variant that does not test for variadic parameters.
DecorateUnchecked(kinds) == "ready"

\* "raised": _BeartypeUtilCallableCachedException; "ready": the closure.
Decorate(kinds) == IF is_func_arg_variadic(kinds) THEN "raised" ELSE "ready"

NoCall == [args |-> <<>>, kwargs |-> <<>>]
EmptyDict == [k \in {} |-> 0]

\* hint_sign is None: the classifier found no sign.
NoSign == "None"

\* No call of reduce_hint yet.
RedIdle == [n |-> 0, hint |-> "int", hint_sign |-> NoSign,
            conf |-> [is_pep484_tower |-> FALSE, is_color |-> FALSE],
            branch |-> "none", result |-> "int"]

\* Piths and hints of the type check: a pith has a runtime type and items, a
\* hint a sign, the class it originates from and child hints.
Pith(type, items) == [type |-> type, items |-> items]
Hint(sign, origin, childs) ==
    [sign |-> sign, origin |-> origin, childs |-> childs]
PithInt == Pith("int", <<>>)
HintClass(cls) == Hint(NoSign, cls, <<>>)

\* cause_str_or_none is None; random_int is None.
NoCauseStr == <<>>
RandomIntNone == <<>>

\* The identity of a cause object: the path of the item it was made for,
\* and whether it is the copy permute(cause_str_or_none=...) made of the
\* cause of that item.
Obj(path, copy) == [path |-> path, copy |-> copy]

\* No exception is raised.
NoRaise == "None"

\* ViolationCause(pith, hint, random_int, conf), with no explanation yet.
ViolationCause(pith, hint, random_int, conf) ==
    [pith |-> pith, hint |-> hint, random_int |-> random_int, conf |-> conf,
     cause_str_or_none |-> NoCauseStr, obj |-> Obj(<<>>, FALSE)]

CauseIdle ==
    ViolationCause(PithInt, HintClass("int"), RandomIntNone,
                   [is_color |-> FALSE])
CheckedIdle == [n |-> 0, ok |-> TRUE, evaluated |-> <<>>, raised |-> NoRaise]
FoundIdle ==
    [n |-> 0, cause |-> CauseIdle, examined |-> <<>>, permuted |-> <<>>,
     written |-> <<>>, raised |-> NoRaise]

\* No pith is checked.
NoViolation ==
    /\ cause = CauseIdle
    /\ checked = CheckedIdle
    /\ found = FoundIdle

\* The callers of the concurrent calls, and a caller outside the wrapper.
Threads == {"caller1", "caller2"}
ThreadIdle ==
    [pc |-> "idle", local |-> NoOutcome, outcome |-> NoOutcome, invoked |-> 0]

\* No concurrent call is made.
NoRace ==
    /\ racing = [call |-> NoCall, body |-> "r1"]
    /\ th = [t \in Threads |-> ThreadIdle]

\* The beartypistry holds no hint.
NoTypistry == bear_typistry = EmptyDict

\* The state before func, a callable with parameters of these kinds, is
\* decorated.
Undecorated(kinds) ==
    /\ func_param_kinds = kinds
    /\ wrapper = "none"
    /\ params_flat_to_return_value = EmptyDict
    /\ params_flat_to_exception = EmptyDict
    /\ func_graph = EmptyDict
    /\ n_calls = 0
    /\ n_invoked = 0
    /\ invoked_by_key = EmptyDict
    /\ last = [n |-> 0, call |-> NoCall, params_flat |-> ParamsFlat(NoCall),
               path |-> "none", outcome |-> NoOutcome, invoked |-> 0,
               direct |-> NoOutcome, warned |-> FALSE]

InitCache ==
    /\ \E kinds \in ParamKindSets : Undecorated(kinds)
    /\ red = RedIdle
    /\ NoViolation
    /\ NoRace
    /\ NoTypistry

\* @callable_cached applied to func.
Wrap ==
    /\ wrapper = "none"
    /\ wrapper' = Decorate(func_param_kinds)
    /\ UNCHANGED <<func_param_kinds, params_flat_to_return_value,
                   params_flat_to_exception, func_graph, n_calls, n_invoked,
                   invoked_by_key, last, red>>
    /\ UNCHANGED cause_vars
    /\ UNCHANGED race_vars
    /\ UNCHANGED typistry_vars

\* One call of the wrapper.  `body` is what func's body does for the
\* parameters of this call: the same as at any earlier look (func is pure).
Call(call, body) ==
    /\ wrapper = "ready"
    /\ n_calls < MaxCalls
    /\ IF ~BindsOk(call) THEN body = "TypeError"
       ELSE IF Bind(call) \in DOMAIN func_graph
            THEN body = func_graph[Bind(call)]
            ELSE TRUE
    /\ func_graph' = IF BindsOk(call)
                     THEN DictSet(func_graph, Bind(call), body)
                     ELSE func_graph
    /\ \E step \in {CallableCached(call, body)},
          params_flat \in {ParamsFlat(call)},
          direct \in {FuncCall(call, body, 0)} :
           /\ params_flat_to_return_value' = step.returns
           /\ params_flat_to_exception' = step.exceptions
           /\ n_invoked' = n_invoked + step.invoked
           /\ invoked_by_key' =
                 DictSet(invoked_by_key, params_flat,
                         step.invoked +
                         IF params_flat \in DOMAIN invoked_by_key
                         THEN invoked_by_key[params_flat] ELSE 0)
           /\ last' = [n |-> n_calls + 1, call |-> call,
                       params_flat |-> params_flat,
                       path |-> step.path, outcome |-> step.outcome,
                       invoked |-> step.invoked, direct |-> direct,
                       warned |-> (call.kwargs # <<>>)]
    /\ n_calls' = n_calls + 1
    /\ UNCHANGED <<func_param_kinds, wrapper, red>>
    /\ UNCHANGED cause_vars
    /\ UNCHANGED race_vars
    /\ UNCHANGED typistry_vars

NextCache ==
    \/ Wrap
    \/ \E call \in Calls, body \in BodyOutcomes : Call(call, body)

(***************************************************************************)
(* reduce_hint(hint, conf, exception_prefix).                              *)
(*                                                                         *)
(* Hints are named by strings.  The classifier, the validity test and the  *)
(* per-sign reducers are imported by convreduce.py from modules outside    *)
(* it; they are given here as tables over the finite universe of hints.    *)
(***************************************************************************)
\* Isinstanceable classes: hints without a sign.
Classes ==
    {"int", "float", "complex", "str", "NoneType", "type", "Mapping", "ndarray"}
\* An object without a sign that is no valid hint.
InvalidHints == {"invalid"}

Hints ==
    Classes \cup InvalidHints \cup
    {"NoneSingleton",
     "TypeVar_T", "TypeVar_T_bound_float",
     "Annotated_int_meta", "Annotated_float_meta", "Annotated_None_meta",
     "Annotated_int_Is", "Annotated_ndarray_Is",
     "NDArray_float64", "NDArray_invalid",
     "Type_object", "Type_int",
     "IO_str", "Protocol_IO_str", "Generic_user",
     "NewType_int", "NewType_float",
     "InitVar_int",
     "TypedDict_user",
     "List_int",
     "Union_float_int", "Union_complex_float_int"}

\* The result of a call that raised.
RaisedHint == "raised"

Signs ==
    {"HintSignNone", "HintSignTypeVar", "HintSignAnnotated",
     "HintSignNumpyArray", "HintSignType", "HintSignGeneric",
     "HintSignNewType", "HintSignDataclassInitVar", "HintSignTypedDict",
     "HintSignList", "HintSignUnion"}

\* get_hint_pep_sign_or_none(hint) for every hint but the None singleton.
SignOfHint(hint) ==
    CASE hint \in Classes \cup InvalidHints -> NoSign
      [] hint \in {"TypeVar_T", "TypeVar_T_bound_float"} -> "HintSignTypeVar"
      [] hint \in {"Annotated_int_meta", "Annotated_float_meta",
                   "Annotated_None_meta", "Annotated_int_Is",
                   "Annotated_ndarray_Is"} -> "HintSignAnnotated"
      [] hint \in {"NDArray_float64", "NDArray_invalid"} -> "HintSignNumpyArray"
      [] hint \in {"Type_object", "Type_int"} -> "HintSignType"
      [] hint \in {"IO_str", "Protocol_IO_str", "Generic_user"} -> "HintSignGeneric"
      [] hint \in {"NewType_int", "NewType_float"} -> "HintSignNewType"
      [] hint = "InitVar_int" -> "HintSignDataclassInitVar"
      [] hint = "TypedDict_user" -> "HintSignTypedDict"
      [] hint = "List_int" -> "HintSignList"
      [] hint \in {"Union_float_int", "Union_complex_float_int"} -> "HintSignUnion"
      [] OTHER -> NoSign

\* What get_hint_pep_sign_or_none may report for a hint.  The classifier is
\* not part of convreduce.py: for the None singleton every answer is allowed.
get_hint_pep_sign_or_none(hint) ==
    IF hint = "NoneSingleton" THEN {NoSign} \cup Signs ELSE {SignOfHint(hint)}

\* Pep484TowerFloat and Pep484TowerComplex: the unions of the numeric tower.
Pep484TowerFloat == "Union_float_int"
Pep484TowerComplex == "Union_complex_float_int"

\* die_unless_hint(hint): TRUE when it returns, FALSE when it raises.  A hint
\* without a sign is valid when it is a class.
die_unless_hint(hint) == hint \in Classes

get_hint_pep484_typevar_bound_or_none(hint) ==
    IF hint = "TypeVar_T_bound_float" THEN "float" ELSE "no_bound"

is_hint_pep593_beartype(hint) ==
    hint \in {"Annotated_int_Is", "Annotated_ndarray_Is"}

get_hint_pep593_metahint(hint) ==
    CASE hint \in {"Annotated_int_meta", "Annotated_int_Is"} -> "int"
      [] hint = "Annotated_float_meta" -> "float"
      [] hint = "Annotated_None_meta" -> "NoneSingleton"
      [] OTHER -> "ndarray"

reduce_hint_numpy_ndarray(hint) ==
    IF hint = "NDArray_float64" THEN "Annotated_ndarray_Is" ELSE RaisedHint

reduce_hint_pep484585_subclass_superclass_if_ignorable(hint) ==
    IF hint = "Type_object" THEN "type" ELSE hint

is_hint_pep484_generic_io(hint) == hint = "IO_str"

reduce_hint_pep484_generic_io_to_pep544_protocol(hint) == "Protocol_IO_str"

get_hint_pep484_newtype_class(hint) ==
    IF hint = "NewType_float" THEN "float" ELSE "int"

get_hint_pep557_initvar_arg(hint) == "int"

reduce_hint_pep589(hint) == "Mapping"

\* _HINT_SIGN_TO_REDUCER: the signs with a registered reducer.
HINT_SIGN_TO_REDUCER ==
    {"HintSignNewType", "HintSignDataclassInitVar", "HintSignTypedDict"}

\* hint_reducer(hint=hint, exception_prefix=exception_prefix)
HintReducer(hint_sign, hint) ==
    CASE hint_sign = "HintSignNewType" -> get_hint_pep484_newtype_class(hint)
      [] hint_sign = "HintSignDataclassInitVar" ->
            get_hint_pep557_initvar_arg(hint)
      [] OTHER -> reduce_hint_pep589(hint)

\* Configurations: BeartypeConf(is_pep484_tower, is_color).
Confs == [is_pep484_tower : BOOLEAN, is_color : BOOLEAN]

Reduced(branch, hint) == [branch |-> branch, hint |-> hint]

\* A variant of the first branch that returns the hint without validating it.
ReduceNoSignUnvalidated(hint, conf) ==
    IF conf.is_pep484_tower /\ (hint = "float" \/ hint = "complex")
    THEN Reduced("no_sign",
                 IF hint = "float" THEN Pep484TowerFloat
                 ELSE Pep484TowerComplex)
    ELSE Reduced("no_sign", hint)

\* A variant of the first branch that never expands the numeric tower.
ReduceNoSignNoTower(hint, conf) ==
    IF die_unless_hint(hint) THEN Reduced("no_sign", hint)
    ELSE Reduced("no_sign", RaisedHint)

\* The branch  if hint_sign is None.
ReduceNoSign(hint, conf) ==
    IF conf.is_pep484_tower /\ (hint = "float" \/ hint = "complex")
    THEN Reduced("no_sign",
                 IF hint = "float" THEN Pep484TowerFloat
                 ELSE Pep484TowerComplex)
    ELSE IF die_unless_hint(hint) THEN Reduced("no_sign", hint)
    ELSE Reduced("no_sign", RaisedHint)

\* The branch  elif hint is None.
ReduceNone(hint) == Reduced("none", "NoneType")

\* The branch  elif hint_sign is HintSignTypeVar.
ReduceTypeVar(hint) ==
    LET hint_bound == get_hint_pep484_typevar_bound_or_none(hint)
    IN  Reduced("typevar", IF hint_bound # "no_bound" THEN hint_bound ELSE hint)

\* A variant that keeps every annotated hint as it is.
ReduceAnnotatedNever(hint) == Reduced("annotated", hint)

\* A variant that drops the metadata of every annotated hint.
ReduceAnnotatedAlways(hint) ==
    Reduced("annotated", get_hint_pep593_metahint(hint))

\* The branch  elif hint_sign is HintSignAnnotated.
ReduceAnnotated(hint) ==
    Reduced("annotated",
            IF ~is_hint_pep593_beartype(hint)
            THEN get_hint_pep593_metahint(hint) ELSE hint)

\* The branch  elif hint_sign is HintSignNumpyArray.
ReduceNumpyArray(hint) == Reduced("numpy", reduce_hint_numpy_ndarray(hint))

\* The branch  elif hint_sign is HintSignType.
ReduceType(hint) ==
    Reduced("subclass",
            reduce_hint_pep484585_subclass_superclass_if_ignorable(hint))

\* The branch  elif is_hint_pep484_generic_io(hint).
ReduceGenericIO(hint) ==
    Reduced("io", reduce_hint_pep484_generic_io_to_pep544_protocol(hint))

\* The branch  else.
ReduceFallback(hint, hint_sign) ==
    Reduced("fallback",
            IF hint_sign \in HINT_SIGN_TO_REDUCER
            THEN HintReducer(hint_sign, hint) ELSE hint)

\* The branches from  elif hint_sign is HintSignTypeVar  on.
ReduceSigned(hint, hint_sign) ==
    IF hint_sign = "HintSignTypeVar" THEN ReduceTypeVar(hint)
    ELSE IF hint_sign = "HintSignAnnotated" THEN ReduceAnnotated(hint)
    ELSE IF hint_sign = "HintSignNumpyArray" THEN ReduceNumpyArray(hint)
    ELSE IF hint_sign = "HintSignType" THEN ReduceType(hint)
    ELSE IF is_hint_pep484_generic_io(hint) THEN ReduceGenericIO(hint)
    ELSE ReduceFallback(hint, hint_sign)

\* A variant that tests for the None singleton before the sign.
ReduceHintNoneFirst(hint, hint_sign, conf) ==
    IF hint = "NoneSingleton" THEN ReduceNone(hint)
    ELSE IF hint_sign = NoSign THEN ReduceNoSign(hint, conf)
    ELSE ReduceSigned(hint, hint_sign)

\* A variant that tests for the None singleton after the type variables.
ReduceHintNoneLate(hint, hint_sign, conf) ==
    IF hint_sign = NoSign THEN ReduceNoSign(hint, conf)
    ELSE IF hint_sign = "HintSignTypeVar" THEN ReduceTypeVar(hint)
    ELSE IF hint = "NoneSingleton" THEN ReduceNone(hint)
    ELSE ReduceSigned(hint, hint_sign)

\* The body of reduce_hint, where hint_sign is the classifier's answer.
ReduceHint(hint, hint_sign, conf) ==
    IF hint_sign = NoSign THEN ReduceNoSign(hint, conf)
    ELSE IF hint = "NoneSingleton" THEN ReduceNone(hint)
    ELSE ReduceSigned(hint, hint_sign)

\* One call of reduce_hint.
Reduce(hint, hint_sign, conf) ==
    /\ hint_sign \in get_hint_pep_sign_or_none(hint)
    /\ \E reduced \in {ReduceHint(hint, hint_sign, conf)} :
          red' = [n |-> 1, hint |-> hint, hint_sign |-> hint_sign,
                  conf |-> conf, branch |-> reduced.branch,
                  result |-> reduced.hint]
    /\ UNCHANGED cache_vars
    /\ UNCHANGED cause_vars
    /\ UNCHANGED race_vars
    /\ UNCHANGED typistry_vars

NextReduce ==
    \E hint \in Hints, hint_sign \in {NoSign} \cup Signs, conf \in Confs :
        Reduce(hint, hint_sign, conf)

(***************************************************************************)
(* The container check of the sign logic and the violation cause finders.  *)
(*                                                                         *)
(* ViolationCause, its methods permute and find_cause, the shallow finder  *)
(* find_cause_type_instance_origin and the text helpers are imported from  *)
(* modules outside this repository's sources: they are modelled from the   *)
(* specification.  An explanation is the sequence of its words.            *)
(***************************************************************************)
\* The one-character string "a": its only item is the string itself.
PithStr == Pith("str", <<>>)
PithLeaves == {PithInt, PithStr}

\* All sequences over S of length at most n.
SeqsUpTo(S, n) == UNION {[1..k -> S] : k \in 0..n}

FlatLists == {Pith("list", items) : items \in SeqsUpTo(PithLeaves, MaxLen)}
FlatTuples == {Pith("tuple", items) : items \in SeqsUpTo(PithLeaves, MaxLen)}
\* Tuples such as (1, ["a", 2, "b"]).
PairTuples ==
    {Pith("tuple", <<leaf, list>>) : leaf \in PithLeaves, list \in FlatLists}
\* Lists of one or two lists of at most two items each.
ShortLists == {Pith("list", items) : items \in SeqsUpTo(PithLeaves, 2)}
ListsOfLists ==
    {Pith("list", <<x>>) : x \in ShortLists}
        \cup {Pith("list", <<x, y>>) : x \in ShortLists, y \in ShortLists}

Piths == PithLeaves \cup FlatLists \cup FlatTuples \cup PairTuples
            \cup ListsOfLists

\* len(pith) and pith[index], 0-based.
PithLen(pith) == IF pith.type = "str" THEN 1 ELSE Len(pith.items)
PithItem(pith, index) ==
    IF pith.type = "str" THEN pith ELSE pith.items[index + 1]

\* not pith, for a pith that is a container.
IsEmpty(pith) == PithLen(pith) = 0

\* isinstance(pith, origin).
IsInstance(pith, origin) ==
    CASE origin \in {"Sequence", "Collection"} ->
            pith.type \in {"list", "tuple", "str"}
      [] OTHER -> pith.type = origin

\* Signs of the hints checked by the sequence logic, and the hints.
HINT_SIGNS_SEQUENCE_ARGS_1 ==
    {"HintSignList", "HintSignSequence", "HintSignTuple"}
HINT_SIGNS_REITERABLE_ARGS_1 == {"HintSignCollection"}

\* An ignorable child hint: hint_childs holds None in its place.
HintChildNone == Hint("ignorable", "object", <<>>)
\* The ellipsis of a variable-length tuple hint.
HintEllipsis == Hint("ellipsis", "ellipsis", <<>>)

HintInt == HintClass("int")
HintStr == HintClass("str")
HintSequence(child) == Hint("HintSignSequence", "Sequence", <<child>>)
HintList(child) == Hint("HintSignList", "list", <<child>>)
HintTupleVariadic(child) ==
    Hint("HintSignTuple", "tuple", <<child, HintEllipsis>>)
HintCollection(child) == Hint("HintSignCollection", "Collection", <<child>>)
HintTupleFixed(childs) == Hint("HintSignTupleFixed", "tuple", childs)

\* is_hint_pep484585_tuple_empty(hint): the hint Tuple[()].
is_hint_pep484585_tuple_empty(hint) ==
    hint.sign = "HintSignTupleFixed" /\ hint.childs = <<>>

SequenceHints ==
    {HintSequence(HintInt), HintSequence(HintStr), HintList(HintInt),
     HintList(HintChildNone), HintList(HintList(HintInt)),
     HintTupleVariadic(HintInt)}
ReiterableHints == {HintCollection(HintInt)}
TupleFixedHints ==
    {HintTupleFixed(<<>>), HintTupleFixed(<<HintInt>>),
     HintTupleFixed(<<HintInt, HintStr>>),
     HintTupleFixed(<<HintInt, HintSequence(HintStr)>>),
     HintTupleFixed(<<HintChildNone, HintStr>>),
     HintTupleFixed(<<HintInt, HintStr, HintInt>>)}
CauseHints == SequenceHints \cup ReiterableHints \cup TupleFixedHints

\* The integers getrandbits(32) may return, and None.
RandomInts == {<<0>>, <<1>>, <<5>>, <<2147483647>>}
CauseConfs == [is_color : BOOLEAN]

\* str(index).
Str(index) ==
    <<"0", "1", "2", "3", "4", "5", "6", "7", "8", "9">>[index + 1]

\* color_type(text, is_color) and prefix_pith_type(pith, is_color).
color_type(text, is_color) ==
    IF is_color THEN <<"COLOR_TYPE", text, "COLOR_RESET">> ELSE <<text>>
prefix_pith_type(pith, is_color) == color_type(pith.type, is_color)

RECURSIVE represent_pith(_)
RECURSIVE represent_items(_)
represent_items(items) ==
    IF items = <<>> THEN <<>>
    ELSE represent_pith(Head(items)) \o represent_items(Tail(items))
\* represent_pith(pith): the representation of the pith.
represent_pith(pith) ==
    IF pith.type \in {"list", "tuple"}
    THEN <<pith.type, "(">> \o represent_items(pith.items) \o <<")">>
    ELSE <<pith.type>>

\* cause.permute(pith=pith, hint=hint): a new cause object, for the item at
\* this path.
Permute(input, pith, hint, path) ==
    [input EXCEPT !.pith = pith, !.hint = hint, !.obj = Obj(path, FALSE)]
\* cause.permute(cause_str_or_none=cause_str): a new cause object.
PermuteCauseStr(input, cause_str) ==
    [input EXCEPT !.cause_str_or_none = cause_str,
                  !.obj = Obj(input.obj.path, TRUE)]

\* find_cause_type_instance_origin(cause): the cause itself when the pith
\* is an instance of the class the hint originates from.
find_cause_type_instance_origin(input) ==
    IF IsInstance(input.pith, input.hint.origin) THEN input
    ELSE PermuteCauseStr(input,
            represent_pith(input.pith)
                \o <<"not", "instance", "of", input.hint.origin>>)

\* What a finder hands back: the output cause and, in order, the paths (the
\* indices from the root pith down) of the items it examined, the child
\* causes it derived with the parent each was derived from, the cause
\* objects it assigned an explanation to as they were after the assignment,
\* and the exception it raised if any.
Found(output, examined) ==
    [cause |-> output, examined |-> examined, permuted |-> <<>>,
     written |-> <<>>, raised |-> NoRaise]
\* The finder raises this exception.
Raise(input, exception) == [Found(input, <<>>) EXCEPT !.raised = exception]
\* The statements of first, then those of rest, whose outcome it is.
Then(first, rest) ==
    [rest EXCEPT !.examined = first.examined \o @,
                 !.permuted = first.permuted \o @,
                 !.written = first.written \o @]
\* cause_deep.cause_str_or_none = ..., then  return cause_deep.
Assigned(deep, output) ==
    [deep EXCEPT !.cause = output, !.written = @ \o <<output>>]

\* A variant that enumerates every item whatever the random integer.
PithEnumeratorAll(input) ==
    [i \in 1..PithLen(input.pith) |-> i - 1]

\* A variant that enumerates the items from the last to the first.
PithEnumeratorReversed(input) ==
    IF input.random_int # RandomIntNone
    THEN <<input.random_int[1] % PithLen(input.pith)>>
    ELSE [i \in 1..PithLen(input.pith) |-> PithLen(input.pith) - i]

\* The indices of the items to examine, in order: the single index
\* random_int % len(pith), or every index.
PithEnumerator(input) ==
    IF input.random_int # RandomIntNone
    THEN <<input.random_int[1] % PithLen(input.pith)>>
    ELSE [i \in 1..PithLen(input.pith) |-> i - 1]

\* A variant that names the item without its container.
PrefixItemBare(input, pith_item_index, cause_deep) ==
    [cause_deep EXCEPT !.cause_str_or_none =
        <<"index">> \o color_type(Str(pith_item_index), input.conf.is_color)
            \o <<"item">> \o cause_deep.cause_str_or_none]

\* A variant that assigns the explanation to the input cause.
PrefixItemInPlace(input, pith_item_index, cause_deep) ==
    [input EXCEPT !.cause_str_or_none =
        prefix_pith_type(input.pith, input.conf.is_color)
            \o <<"index">>
            \o color_type(Str(pith_item_index), input.conf.is_color)
            \o <<"item">> \o cause_deep.cause_str_or_none]

\* cause_deep.cause_str_or_none = f'{prefix_pith_type(...)}index {...} item
\* {cause_deep.cause_str_or_none}': the object cause_deep with the new
\* explanation.
PrefixItem(input, pith_item_index, cause_deep) ==
    [cause_deep EXCEPT !.cause_str_or_none =
        prefix_pith_type(input.pith, input.conf.is_color)
            \o <<"index">>
            \o color_type(Str(pith_item_index), input.conf.is_color)
            \o <<"item">> \o cause_deep.cause_str_or_none]

\* A variant that leaves the number of child hints out.
LengthMismatchBare(input) ==
    PermuteCauseStr(input,
        <<"tuple">> \o represent_pith(input.pith)
            \o <<"length", Str(PithLen(input.pith))>>)

\* cause.permute(cause_str_or_none=f'tuple {...} length {len(cause.pith)} !=
\* {len(cause.hint_childs)}')
LengthMismatch(input) ==
    PermuteCauseStr(input,
        <<"tuple">> \o represent_pith(input.pith)
            \o <<"length", Str(PithLen(input.pith)), "!=",
                 Str(Len(input.hint.childs))>>)

RECURSIVE find_cause(_, _)
RECURSIVE find_cause_sequence_args_1(_, _)
RECURSIVE find_cause_tuple_fixed(_, _)
RECURSIVE ExamineSequence(_, _, _, _)
RECURSIVE ExamineTuple(_, _, _)
RECURSIVE Recurse(_, _, _, _)

\* cause.permute(pith=pith_item, hint=hint_child).find_cause()
Recurse(input, pith_item_index, hint_child, path) ==
    LET here == path \o <<pith_item_index>>
        child == Permute(input, PithItem(input.pith, pith_item_index),
                         hint_child, here)
        below == find_cause(child, here)
    IN  [below EXCEPT
            !.examined = <<here>> \o @,
            !.permuted = <<[parent |-> input, child |-> child]>> \o @]

\* A variant of the loop that returns the cause of the first item whether
\* or not it has an explanation.
ExamineSequenceAlways(input, hint_child, pith_enumerator, path) ==
    IF pith_enumerator = <<>> THEN Found(input, <<>>)
    ELSE LET pith_item_index == Head(pith_enumerator)
             deep == Recurse(input, pith_item_index, hint_child, path)
         IN  Assigned(deep, PrefixItem(input, pith_item_index, deep.cause))

\* for pith_item_index, pith_item in pith_enumerator, then  return cause.
ExamineSequence(input, hint_child, pith_enumerator, path) ==
    IF pith_enumerator = <<>> THEN Found(input, <<>>)
    ELSE LET pith_item_index == Head(pith_enumerator)
             deep == Recurse(input, pith_item_index, hint_child, path)
         IN  IF deep.raised # NoRaise THEN deep
             ELSE IF deep.cause.cause_str_or_none # NoCauseStr
             THEN Assigned(deep,
                           PrefixItem(input, pith_item_index, deep.cause))
             ELSE Then(deep, ExamineSequence(input, hint_child,
                                             Tail(pith_enumerator), path))

\* A variant without the test  not cause.pith.
FindCauseSequenceNoEmpty(input, path) ==
    IF input.hint.sign \notin HINT_SIGNS_SEQUENCE_ARGS_1
    THEN Raise(input, "AssertionError")
    ELSE IF input.hint.childs = <<>> THEN Raise(input, "IndexError")
    ELSE LET hint_child == input.hint.childs[1]
             cause_shallow == find_cause_type_instance_origin(input)
         IN  IF cause_shallow.cause_str_or_none # NoCauseStr
             THEN Found(cause_shallow, <<>>)
             ELSE IF hint_child = HintChildNone
             THEN Found(input, <<>>)
             ELSE IF input.random_int # RandomIntNone /\ PithLen(input.pith) = 0
             THEN Raise(input, "ZeroDivisionError")
             ELSE ExamineSequence(input, hint_child, PithEnumerator(input),
                                  path)

\* find_cause_sequence_args_1(cause).  cause.hint_childs[0] of a hint that
\* has no child hint and cause.random_int % len(cause.pith) of an empty pith
\* raise.
find_cause_sequence_args_1(input, path) ==
    IF input.hint.sign \notin HINT_SIGNS_SEQUENCE_ARGS_1
    THEN Raise(input, "AssertionError")
    ELSE IF input.hint.childs = <<>> THEN Raise(input, "IndexError")
    ELSE LET hint_child == input.hint.childs[1]
             cause_shallow == find_cause_type_instance_origin(input)
         IN  IF cause_shallow.cause_str_or_none # NoCauseStr
             THEN Found(cause_shallow, <<>>)
             ELSE IF IsEmpty(input.pith) \/ hint_child = HintChildNone
             THEN Found(input, <<>>)
             ELSE IF input.random_int # RandomIntNone /\ PithLen(input.pith) = 0
             THEN Raise(input, "ZeroDivisionError")
             ELSE ExamineSequence(input, hint_child, PithEnumerator(input),
                                  path)

\* A variant of the loop that recurses into every position, also one whose
\* child hint is ignorable.
ExamineTupleNoSkip(input, pith_item_index, path) ==
    IF pith_item_index >= PithLen(input.pith) THEN Found(input, <<>>)
    ELSE IF pith_item_index >= Len(input.hint.childs)
    THEN Raise(input, "IndexError")
    ELSE LET hint_child == input.hint.childs[pith_item_index + 1]
             deep == Recurse(input, pith_item_index, hint_child, path)
         IN  IF deep.raised # NoRaise THEN deep
             ELSE IF deep.cause.cause_str_or_none # NoCauseStr
             THEN Assigned(deep,
                           PrefixItem(input, pith_item_index, deep.cause))
             ELSE Then(deep, ExamineTuple(input, pith_item_index + 1, path))

\* for pith_item_index, pith_item in enumerate(cause.pith), from this index
\* on, then  return cause.  cause.hint_childs[pith_item_index] of a hint
\* that has no such child hint raises.
ExamineTuple(input, pith_item_index, path) ==
    IF pith_item_index >= PithLen(input.pith) THEN Found(input, <<>>)
    ELSE IF pith_item_index >= Len(input.hint.childs)
    THEN Raise(input, "IndexError")
    ELSE LET hint_child == input.hint.childs[pith_item_index + 1]
             deep == Recurse(input, pith_item_index, hint_child, path)
         IN  IF hint_child = HintChildNone
             THEN ExamineTuple(input, pith_item_index + 1, path)
             ELSE IF deep.raised # NoRaise THEN deep
             ELSE IF deep.cause.cause_str_or_none # NoCauseStr
             THEN Assigned(deep,
                           PrefixItem(input, pith_item_index, deep.cause))
             ELSE Then(deep, ExamineTuple(input, pith_item_index + 1, path))

\* A variant without the shallow test of the pith's type.
FindCauseTupleFixedUnchecked(input, path) ==
    IF input.hint.sign # "HintSignTupleFixed"
    THEN Raise(input, "AssertionError")
    ELSE IF is_hint_pep484585_tuple_empty(input.hint)
    THEN IF IsEmpty(input.pith) THEN Found(input, <<>>)
         ELSE Found(PermuteCauseStr(input,
                       <<"tuple">> \o represent_pith(input.pith)
                           \o <<"non-empty">>), <<>>)
    ELSE IF PithLen(input.pith) # Len(input.hint.childs)
    THEN Found(LengthMismatch(input), <<>>)
    ELSE ExamineTuple(input, 0, path)

\* A variant without the comparison of the lengths.
FindCauseTupleFixedNoLength(input, path) ==
    IF input.hint.sign # "HintSignTupleFixed"
    THEN Raise(input, "AssertionError")
    ELSE LET cause_shallow == find_cause_type_instance_origin(input)
         IN  IF cause_shallow.cause_str_or_none # NoCauseStr
             THEN Found(cause_shallow, <<>>)
             ELSE IF is_hint_pep484585_tuple_empty(input.hint)
             THEN IF IsEmpty(input.pith) THEN Found(input, <<>>)
                  ELSE Found(PermuteCauseStr(input,
                                <<"tuple">> \o represent_pith(input.pith)
                                    \o <<"non-empty">>), <<>>)
             ELSE ExamineTuple(input, 0, path)

\* find_cause_tuple_fixed(cause).
find_cause_tuple_fixed(input, path) ==
    IF input.hint.sign # "HintSignTupleFixed"
    THEN Raise(input, "AssertionError")
    ELSE LET cause_shallow == find_cause_type_instance_origin(input)
         IN  IF cause_shallow.cause_str_or_none # NoCauseStr
             THEN Found(cause_shallow, <<>>)
             ELSE IF is_hint_pep484585_tuple_empty(input.hint)
             THEN IF IsEmpty(input.pith) THEN Found(input, <<>>)
                  ELSE Found(PermuteCauseStr(input,
                                <<"tuple">> \o represent_pith(input.pith)
                                    \o <<"non-empty">>), <<>>)
             ELSE IF PithLen(input.pith) # Len(input.hint.childs)
             THEN Found(LengthMismatch(input), <<>>)
             ELSE ExamineTuple(input, 0, path)

\* cause.find_cause(): the finder of the hint's sign; a class is checked by
\* isinstance alone.
find_cause(input, path) ==
    IF input.hint.sign = NoSign
    THEN Found(find_cause_type_instance_origin(input), <<>>)
    ELSE IF input.hint.sign \in HINT_SIGNS_SEQUENCE_ARGS_1
    THEN find_cause_sequence_args_1(input, path)
    ELSE find_cause_tuple_fixed(input, path)

\* The hint's sign, at every depth, has a finder among the above.
RECURSIVE HasFinder(_)
HasFinder(hint) ==
    \/ hint.sign = NoSign
    \/ /\ hint.sign \in HINT_SIGNS_SEQUENCE_ARGS_1
       /\ hint.childs[1] = HintChildNone \/ HasFinder(hint.childs[1])
    \/ /\ hint.sign = "HintSignTupleFixed"
       /\ \A i \in DOMAIN hint.childs :
             hint.childs[i] = HintChildNone \/ HasFinder(hint.childs[i])

\* What the generated check hands back: whether the pith passes, in order
\* the paths of the items whose child check was evaluated, and the
\* exception the check raised if any.
Checked(ok, evaluated) ==
    [ok |-> ok, evaluated |-> evaluated, raised |-> NoRaise]
\* The check raises this exception.
CheckRaise(exception) == [Checked(FALSE, <<>>) EXCEPT !.raised = exception]

\* A variant of the sequence expression that takes the first item.
SequencePithChildIndexFirst(pith, random_int) == 0

\* HintSignLogicSequenceArgs1:
\* {pith_curr_var_name}[{VAR_NAME_RANDOM_INT} % len({pith_curr_var_name})]
SequencePithChildIndex(pith, random_int) == random_int % PithLen(pith)

\* HintSignLogicReiterableArgs1: next(iter({pith_curr_var_name}))
ReiterablePithChildIndex(pith) == 0

\* pith_child_expr_format of the logic of the sign.
PithChildIndex(sign, pith, random_int) ==
    IF sign \in HINT_SIGNS_SEQUENCE_ARGS_1
    THEN SequencePithChildIndex(pith, random_int)
    ELSE ReiterablePithChildIndex(pith)

\* What evaluating pith_child_expr_format raises: the modulo of the sequence
\* expression and the next() of the reiterable one fail on an empty pith.
PithChildRaise(sign, pith) ==
    IF PithLen(pith) # 0 THEN NoRaise
    ELSE IF sign \in HINT_SIGNS_SEQUENCE_ARGS_1 THEN "ZeroDivisionError"
    ELSE "StopIteration"

RECURSIVE CheckHint(_, _, _, _)
RECURSIVE CODE_PEP484585_CONTAINER_ARGS_1(_, _, _, _)
RECURSIVE HintChildPlaceholder(_, _, _, _)

\* {hint_child_placeholder}: the check of the item pith_child_expr_format
\* yields.
HintChildPlaceholder(pith, hint, random_int, path) ==
    IF PithChildRaise(hint.sign, pith) # NoRaise
    THEN CheckRaise(PithChildRaise(hint.sign, pith))
    ELSE LET index == PithChildIndex(hint.sign, pith, random_int)
             here == path \o <<index>>
             child == CheckHint(PithItem(pith, index), hint.childs[1],
                                random_int, here)
         IN  [child EXCEPT !.evaluated = <<here>> \o @]

\* A variant of the template without the isinstance test.
ContainerArgs1NoInstance(pith, hint, random_int, path) ==
    IF IsEmpty(pith) THEN Checked(TRUE, <<>>)
    ELSE HintChildPlaceholder(pith, hint, random_int, path)

\* _CODE_PEP484585_CONTAINER_ARGS_1:
\*     isinstance(pith, hint_curr_expr) and
\*     (not pith or hint_child_placeholder)
CODE_PEP484585_CONTAINER_ARGS_1(pith, hint, random_int, path) ==
    IF ~IsInstance(pith, hint.origin) THEN Checked(FALSE, <<>>)
    ELSE IF IsEmpty(pith) THEN Checked(TRUE, <<>>)
    ELSE HintChildPlaceholder(pith, hint, random_int, path)

\* The code generated for a hint: isinstance for a class and for a container
\* whose child hint is ignorable, the container template otherwise.
CheckHint(pith, hint, random_int, path) ==
    IF hint.sign = NoSign \/ hint.childs[1] = HintChildNone
    THEN Checked(IsInstance(pith, hint.origin), <<>>)
    ELSE CODE_PEP484585_CONTAINER_ARGS_1(pith, hint, random_int, path)

\* The hint's sign, at every depth, has a logic among the above.
RECURSIVE HasLogic(_)
HasLogic(hint) ==
    \/ hint.sign = NoSign
    \/ /\ hint.sign \in HINT_SIGNS_SEQUENCE_ARGS_1
                            \cup HINT_SIGNS_REITERABLE_ARGS_1
       /\ hint.childs[1] = HintChildNone \/ HasLogic(hint.childs[1])

\* The wrapper's check of the pith, with the random integer it drew.
TypeCheck ==
    /\ checked.n = 0
    /\ found.n = 0
    /\ cause.random_int # RandomIntNone
    /\ HasLogic(cause.hint)
    /\ \E result \in {CheckHint(cause.pith, cause.hint,
                                cause.random_int[1], <<>>)} :
          checked' = [n |-> 1, ok |-> result.ok,
                      evaluated |-> result.evaluated,
                      raised |-> result.raised]
    /\ UNCHANGED <<cause, found>>
    /\ UNCHANGED cache_vars
    /\ UNCHANGED reduce_vars
    /\ UNCHANGED race_vars
    /\ UNCHANGED typistry_vars

\* The cause object as the assignments of the finder left it: what the last
\* assignment to this object made of it.
AfterWrites(object, written) ==
    LET writes == {k \in DOMAIN written : written[k].obj = object.obj}
    IN  IF writes = {} THEN object
        ELSE written[CHOOSE k \in writes : \A j \in writes : j <= k]

\* cause.find_cause() on the input cause.
FindCause ==
    /\ found.n = 0
    /\ HasFinder(cause.hint)
    /\ \E result \in {find_cause(cause, <<>>)} :
          /\ found' = [n |-> 1, cause |-> result.cause,
                       examined |-> result.examined,
                       permuted |-> result.permuted,
                       written |-> result.written,
                       raised |-> result.raised]
          /\ cause' = AfterWrites(cause, result.written)
    /\ UNCHANGED checked
    /\ UNCHANGED cache_vars
    /\ UNCHANGED reduce_vars
    /\ UNCHANGED race_vars
    /\ UNCHANGED typistry_vars

NextCause ==
    \/ TypeCheck
    \/ FindCause

(***************************************************************************)
(* Two concurrent calls of the memoized wrapper with the same arguments.   *)
(* Each caller runs the statements of _callable_cached one at a time: a    *)
(* switch of thread may fall between any two of them, also between the     *)
(* call of func and the store of what it returned or raised.               *)
(***************************************************************************)
\* The caller t moves on with these local variables.
Goto(t, pc, local, outcome, invoked) ==
    th' = [th EXCEPT ![t] = [pc |-> pc, local |-> local,
                             outcome |-> outcome,
                             invoked |-> th[t].invoked + invoked]]

\* What the race leaves alone but the dictionaries and the count of calls.
RaceFrame ==
    /\ UNCHANGED <<func_param_kinds, wrapper, func_graph, n_calls,
                   invoked_by_key, last, racing>>
    /\ UNCHANGED reduce_vars
    /\ UNCHANGED cause_vars
    /\ UNCHANGED typistry_vars

\* The caller enters the wrapper, which flattens the parameters.
RaceEnter(t) ==
    /\ wrapper = "ready"
    /\ th[t].pc = "idle"
    /\ Goto(t, "lookup_exception", NoOutcome, NoOutcome, 0)
    /\ UNCHANGED <<params_flat_to_return_value, params_flat_to_exception,
                   n_invoked>>
    /\ RaceFrame

\* exception = params_flat_to_exception_get(params_flat, SENTINEL), which
\* hashes the key, then  raise exception  when one is stored.
RaceLookupException(t) ==
    /\ th[t].pc = "lookup_exception"
    /\ LET params_flat == ParamsFlat(racing.call)
       IN  IF ~IsHashable(params_flat)
           THEN Goto(t, "fallback", NoOutcome, NoOutcome, 0)
           ELSE IF params_flat \in DOMAIN params_flat_to_exception
           THEN LET exception == params_flat_to_exception[params_flat]
                IN  IF exception.what = "TypeError"
                    THEN Goto(t, "fallback", NoOutcome, NoOutcome, 0)
                    ELSE Goto(t, "done", NoOutcome,
                              Raised(exception.what, exception.id), 0)
           ELSE Goto(t, "lookup_return", NoOutcome, NoOutcome, 0)
    /\ UNCHANGED <<params_flat_to_return_value, params_flat_to_exception,
                   n_invoked>>
    /\ RaceFrame

\* return_value = params_flat_to_return_value_get(params_flat, SENTINEL),
\* then  return return_value  when one is stored.
RaceLookupReturn(t) ==
    /\ th[t].pc = "lookup_return"
    /\ LET params_flat == ParamsFlat(racing.call)
       IN  IF params_flat \in DOMAIN params_flat_to_return_value
           THEN Goto(t, "done", NoOutcome,
                     Returned(params_flat_to_return_value[params_flat]), 0)
           ELSE Goto(t, "call", NoOutcome, NoOutcome, 0)
    /\ UNCHANGED <<params_flat_to_return_value, params_flat_to_exception,
                   n_invoked>>
    /\ RaceFrame

\* func(args, kwargs) of the inner try.
RaceCallFunc(t) ==
    /\ th[t].pc = "call"
    /\ LET first == FuncCall(racing.call, racing.body, n_invoked + 1)
       IN  Goto(t, IF first.kind = "return" THEN "store_return"
                   ELSE "store_exception", first, NoOutcome, 1)
    /\ n_invoked' = n_invoked + 1
    /\ UNCHANGED <<params_flat_to_return_value, params_flat_to_exception>>
    /\ RaceFrame

\* return_value = params_flat_to_return_value[params_flat] = ..., then
\* return return_value.
RaceStoreReturn(t) ==
    /\ th[t].pc = "store_return"
    /\ params_flat_to_return_value' =
          DictSet(params_flat_to_return_value, ParamsFlat(racing.call),
                  th[t].local.what)
    /\ Goto(t, "done", NoOutcome, th[t].local, 0)
    /\ UNCHANGED <<params_flat_to_exception, n_invoked>>
    /\ RaceFrame

\* params_flat_to_exception[params_flat] = exception, then  raise exception,
\* which the except TypeError clause catches when it is a TypeError.
RaceStoreException(t) ==
    /\ th[t].pc = "store_exception"
    /\ params_flat_to_exception' =
          DictSet(params_flat_to_exception, ParamsFlat(racing.call),
                  [what |-> th[t].local.what, id |-> th[t].local.id])
    /\ IF th[t].local.what = "TypeError"
       THEN Goto(t, "fallback", NoOutcome, NoOutcome, 0)
       ELSE Goto(t, "done", NoOutcome, th[t].local, 0)
    /\ UNCHANGED <<params_flat_to_return_value, n_invoked>>
    /\ RaceFrame

\* except TypeError: return func(args, kwargs)
RaceFallback(t) ==
    /\ th[t].pc = "fallback"
    /\ Goto(t, "done", NoOutcome,
            FuncCall(racing.call, racing.body, n_invoked + 1), 1)
    /\ n_invoked' = n_invoked + 1
    /\ UNCHANGED <<params_flat_to_return_value, params_flat_to_exception>>
    /\ RaceFrame

NextRace ==
    \/ Wrap
    \/ \E t \in Threads : RaceEnter(t)
    \/ \E t \in Threads : RaceLookupException(t)
    \/ \E t \in Threads : RaceLookupReturn(t)
    \/ \E t \in Threads : RaceCallFunc(t)
    \/ \E t \in Threads : RaceStoreReturn(t)
    \/ \E t \in Threads : RaceStoreException(t)
    \/ \E t \in Threads : RaceFallback(t)

(***************************************************************************)
(* The beartypistry (beartype/_decor/_typistry.py): the memoized registrar *)
(* register_typistry_type and the singleton dictionary bear_typistry.  A   *)
(* name is the sequence of its parts.  The wrapper of the registrar is the *)
(* closure of callable_cached, with its two dictionaries; the registrar is *)
(* not pure: what it does depends on what the beartypistry holds.          *)
(***************************************************************************)
\* Registrations in one behaviour.
MaxRegistrations == 3

MODULE_NAME_BUILTINS == "builtins"
TYPISTRY_EXCEPTION == "_BeartypeDecorBeartypistryException"

\* A class object: the object, the module that defines it and its name.
TypistryType(id, module, basename) ==
    [tag |-> "type", items |-> <<>>, id |-> id, module |-> module,
     basename |-> basename]

\* int, type(None), two classes named A that module m defined one after
\* the other, another class of m and a class named A of another module.
TypistryTypes ==
    {TypistryType("int", MODULE_NAME_BUILTINS, "int"),
     TypistryType("NoneType", MODULE_NAME_BUILTINS, "NoneType"),
     TypistryType("m.A first", "m", "A"),
     TypistryType("m.A second", "m", "A"),
     TypistryType("m.B", "m", "B"),
     TypistryType("n.A", "n", "A")}

get_object_name_unqualified(hint) == hint.basename
get_object_module_name_or_none(hint) == hint.module
get_object_name_qualified(hint) == <<hint.module, ".", hint.basename>>

\* What a call leaves: its outcome and the beartypistry.
Registered(outcome, typistry) ==
    [outcome |-> outcome, bear_typistry |-> typistry]

\* Beartypistry.__setitem__(self, hint_name, hint), for a hint that is a
\* PEP-noncompliant type.
BeartypistrySetItem(self, hint_name, hint, id) ==
    IF hint_name \in DOMAIN self
    THEN Registered(Raised(TYPISTRY_EXCEPTION, id), self)
    ELSE IF /\ hint_name # get_object_name_qualified(hint)
            /\ get_object_name_qualified(hint)[1] # MODULE_NAME_BUILTINS
    THEN Registered(Raised(TYPISTRY_EXCEPTION, id), self)
    ELSE Registered(NoOutcome, DictSet(self, hint_name, hint))

\* register_typistry_type(hint), as invocation number id.
register_typistry_type(hint, typistry, id) ==
    IF hint.tag # "type"
    THEN Registered(Raised(TYPISTRY_EXCEPTION, id), typistry)
    ELSE LET hint_basename == get_object_name_unqualified(hint)
             hint_module_name == get_object_module_name_or_none(hint)
             hint_name == <<hint_module_name, ".", hint_basename>>
             set == BeartypistrySetItem(typistry, hint_name, hint, id)
         IN  IF /\ hint_module_name = MODULE_NAME_BUILTINS
                /\ hint_basename # "NoneType"
             THEN Registered(Returned(<<hint_basename>>), typistry)
             ELSE IF set.outcome.kind = "raise" THEN set
             ELSE Registered(
                     Returned(<<"__beartypistry[">> \o hint_name \o <<"]">>),
                     set.bear_typistry)

\* What one call of the wrapper of the registrar does: Step, and the
\* beartypistry it leaves.
RegisterStep(step, typistry) ==
    [step |-> step, bear_typistry |-> typistry]

\* except TypeError: return func(hint)
RegisterFallback(path, hint, already, typistry, returns, exceptions) ==
    LET direct == register_typistry_type(hint, typistry,
                                         n_invoked + already + 1)
    IN  RegisterStep(Step(path, direct.outcome, already + 1,
                          returns, exceptions),
                     direct.bear_typistry)

\* _callable_cached(hint): the lookups of the key, the type itself, then
\* the call of the registrar on a miss.
RegisterCached(hint) ==
    LET params_flat == ParamsFlat([args |-> <<hint>>, kwargs |-> <<>>])
        first == register_typistry_type(hint, bear_typistry, n_invoked + 1)
    IN  IF ~IsHashable(params_flat)
        THEN RegisterFallback("unhashable", hint, 0, bear_typistry,
                              params_flat_to_return_value,
                              params_flat_to_exception)
        ELSE IF params_flat \in DOMAIN params_flat_to_exception
        THEN LET exception == params_flat_to_exception[params_flat]
             IN  IF exception.what = "TypeError"
                 THEN RegisterFallback("hit_raise_retried", hint, 0,
                                       bear_typistry,
                                       params_flat_to_return_value,
                                       params_flat_to_exception)
                 ELSE RegisterStep(
                         Step("hit_raise",
                              Raised(exception.what, exception.id), 0,
                              params_flat_to_return_value,
                              params_flat_to_exception),
                         bear_typistry)
        ELSE IF params_flat \in DOMAIN params_flat_to_return_value
        THEN RegisterStep(
                Step("hit_return",
                     Returned(params_flat_to_return_value[params_flat]), 0,
                     params_flat_to_return_value, params_flat_to_exception),
                bear_typistry)
        ELSE IF first.outcome.kind = "return"
        THEN RegisterStep(
                Step("miss_return", first.outcome, 1,
                     DictSet(params_flat_to_return_value, params_flat,
                             first.outcome.what),
                     params_flat_to_exception),
                first.bear_typistry)
        ELSE LET stored == DictSet(params_flat_to_exception, params_flat,
                                   [what |-> first.outcome.what,
                                    id |-> first.outcome.id])
             IN  IF first.outcome.what = "TypeError"
                 THEN RegisterFallback("miss_raise_retried", hint, 1,
                                       first.bear_typistry,
                                       params_flat_to_return_value, stored)
                 ELSE RegisterStep(
                         Step("miss_raise", first.outcome, 1,
                              params_flat_to_return_value, stored),
                         first.bear_typistry)

\* One call register_typistry_type(hint) through the wrapper.
RegisterTypistryType(hint) ==
    /\ wrapper = "ready"
    /\ n_calls < MaxRegistrations
    /\ \E done \in {RegisterCached(hint)},
          call \in {[args |-> <<hint>>, kwargs |-> <<>>]} :
           /\ params_flat_to_return_value' = done.step.returns
           /\ params_flat_to_exception' = done.step.exceptions
           /\ bear_typistry' = done.bear_typistry
           /\ n_invoked' = n_invoked + done.step.invoked
           /\ last' = [n |-> n_calls + 1, call |-> call,
                       params_flat |-> ParamsFlat(call),
                       path |-> done.step.path,
                       outcome |-> done.step.outcome,
                       invoked |-> done.step.invoked,
                       direct |-> NoOutcome, warned |-> FALSE]
    /\ n_calls' = n_calls + 1
    /\ UNCHANGED <<func_param_kinds, wrapper, func_graph, invoked_by_key>>
    /\ UNCHANGED reduce_vars
    /\ UNCHANGED cause_vars
    /\ UNCHANGED race_vars

NextTypistry ==
    \/ Wrap
    \/ \E hint \in TypistryTypes : RegisterTypistryType(hint)

(***************************************************************************)
(* Specifications.                                                         *)
(***************************************************************************)
\* The memoized wrapper of one callable.
SpecCache == InitCache /\ [][NextCache]_vars

\* reduce_hint alone: no callable is decorated.
InitReduce ==
    /\ Undecorated({"POSITIONAL_OR_KEYWORD"})
    /\ red = RedIdle
    /\ NoViolation
    /\ NoRace
    /\ NoTypistry

SpecReduce == InitReduce /\ [][NextReduce]_vars

\* One pith, hint, random integer and configuration: no callable is
\* decorated and no hint reduced.
InitCause ==
    /\ Undecorated({"POSITIONAL_OR_KEYWORD"})
    /\ red = RedIdle
    /\ \E pith \in Piths, hint \in CauseHints,
          random_int \in RandomInts \cup {RandomIntNone},
          conf \in CauseConfs :
          cause = ViolationCause(pith, hint, random_int, conf)
    /\ checked = CheckedIdle
    /\ found = FoundIdle
    /\ NoRace
    /\ NoTypistry

SpecCause == InitCause /\ [][NextCause]_vars

\* One call, made by both callers, of a callable not yet decorated; the
\* body of func maps the parameters of that call to one outcome (func is
\* pure).
InitRace ==
    /\ Undecorated({"POSITIONAL_OR_KEYWORD"})
    /\ red = RedIdle
    /\ NoViolation
    /\ \E call \in Calls, body \in BodyOutcomes :
          /\ ~BindsOk(call) => body = "TypeError"
          /\ racing = [call |-> call, body |-> body]
    /\ th = [t \in Threads |-> ThreadIdle]
    /\ NoTypistry

SpecRace == InitRace /\ [][NextRace]_vars

\* The memoized registrar of the beartypistry.
InitTypistry ==
    /\ Undecorated({"POSITIONAL_OR_KEYWORD"})
    /\ red = RedIdle
    /\ NoViolation
    /\ NoRace
    /\ NoTypistry

SpecTypistry == InitTypistry /\ [][NextTypistry]_vars

(***************************************************************************)
(* Properties of callable_cached, checked under SpecCache.                 *)
(***************************************************************************)
\* The step is one call of the wrapper.
CallDone == n_calls' = n_calls + 1

\* The outcome of calling func directly, as the invocation made last.
DirectOutcome(direct, id) ==
    IF direct.kind = "raise" THEN Raised(direct.what, id) ELSE direct

\* The call with its two keyword arguments passed in the other order.
SwapKw(call) == [call EXCEPT !.kwargs = <<@[2], @[1]>>]

\* C1: every call of the wrapper yields the outcome (the returned value or
\* the type of the raised failure) that calling func directly with that
\* call's own arguments yields.
C1_OutcomeOfDirectCall ==
    last.n > 0 =>
        /\ last.outcome.kind = last.direct.kind
        /\ last.outcome.what = last.direct.what

\* C2: for hashable arguments, a call whose key has a stored result returns
\* that stored result without calling func, and func is called at most once
\* per distinct key over the whole sequence of calls.
C2_StoredResultAndOncePerKey ==
    [][ (CallDone /\ IsHashable(last'.params_flat)) =>
          /\ last'.params_flat \in DOMAIN params_flat_to_return_value =>
                /\ last'.outcome =
                      Returned(params_flat_to_return_value[last'.params_flat])
                /\ last'.invoked = 0
          /\ invoked_by_key'[last'.params_flat] <= 1 ]_vars

\* C3: a call whose key has a stored failure re-raises that stored exception
\* object without calling func, whatever the type of the failure.
C3_StoredFailureReraised ==
    [][ (CallDone /\ IsHashable(last'.params_flat)
                  /\ last'.params_flat \in DOMAIN params_flat_to_exception) =>
          /\ last'.outcome =
                LET exception == params_flat_to_exception[last'.params_flat]
                IN  Raised(exception.what, exception.id)
          /\ last'.invoked = 0 ]_vars

\* C4: a call with an unhashable argument calls func once with the same
\* arguments and hands on what that call of func returned or raised (never
\* the TypeError of the hashing), and leaves both dictionaries unchanged.
C4_UnhashableFallsBack ==
    [][ (CallDone /\ ~IsHashable(last'.params_flat)) =>
          /\ last'.invoked = 1
          /\ last'.outcome = DirectOutcome(last'.direct, n_invoked')
          /\ params_flat_to_return_value' = params_flat_to_return_value
          /\ params_flat_to_exception' = params_flat_to_exception ]_vars

C4_Witness ==
    /\ last.n = MaxCalls
    /\ ~IsHashable(last.params_flat)
    /\ last.outcome.kind = "return"
    /\ DOMAIN params_flat_to_return_value # {}

\* C5: decorating a callable with a variadic parameter raises at decoration
\* time: no wrapper exists and no call is ever made; a callable without
\* variadic parameters gets its wrapper.
C5_VariadicRejectedAtWrapTime ==
    /\ (func_param_kinds \cap {"VAR_POSITIONAL", "VAR_KEYWORD"} # {}) =>
          /\ wrapper \in {"none", "raised"}
          /\ n_calls = 0
    /\ (func_param_kinds \cap {"VAR_POSITIONAL", "VAR_KEYWORD"} = {}) =>
          wrapper \in {"none", "ready"}

C5_Witness ==
    /\ "VAR_KEYWORD" \in func_param_kinds
    /\ "VAR_POSITIONAL" \notin func_param_kinds
    /\ wrapper = "raised"

\* C6: a call passing two keyword arguments is keyed apart from the call
\* passing them in the other order: it calls func even when the other order
\* is already cached, and it changes no entry but that of its own key.
C6_KeywordOrderKeyedApart ==
    [][ (CallDone /\ Len(last'.call.kwargs) = 2
                  /\ IsHashable(last'.params_flat)) =>
          LET key == last'.params_flat
              other == ParamsFlat(SwapKw(last'.call))
              stored == DOMAIN params_flat_to_return_value
                            \cup DOMAIN params_flat_to_exception
          IN  /\ other # key
              /\ (other \in stored /\ key \notin stored) => last'.invoked >= 1
              /\ \A k \in DOMAIN params_flat_to_return_value \ {key} :
                    /\ k \in DOMAIN params_flat_to_return_value'
                    /\ params_flat_to_return_value'[k] =
                          params_flat_to_return_value[k]
              /\ \A k \in DOMAIN params_flat_to_exception \ {key} :
                    /\ k \in DOMAIN params_flat_to_exception'
                    /\ params_flat_to_exception'[k] =
                          params_flat_to_exception[k]
              /\ (DOMAIN params_flat_to_return_value'
                    \cup DOMAIN params_flat_to_exception') \subseteq
                       (stored \cup {key}) ]_vars

C6_Witness ==
    /\ last.n = 2
    /\ Len(last.call.kwargs) = 2
    /\ last.path = "miss_return"
    /\ ParamsFlat(SwapKw(last.call)) \in DOMAIN params_flat_to_return_value
    /\ last.params_flat \in DOMAIN params_flat_to_return_value
    /\ params_flat_to_return_value[last.params_flat] =
          params_flat_to_return_value[ParamsFlat(SwapKw(last.call))]

(***************************************************************************)
(* Properties of reduce_hint, checked under SpecReduce.                    *)
(***************************************************************************)
\* The runtime types of the piths.
PithTypes == {"int", "float", "complex", "str"}

\* The classes a hint admits: those of a union, or the class itself.
HintClasses(hint) ==
    CASE hint = "Union_float_int" -> {"float", "int"}
      [] hint = "Union_complex_float_int" -> {"complex", "float", "int"}
      [] OTHER -> {hint}

\* A pith of runtime type pith_type satisfies the hint.
Satisfies(pith_type, hint) == pith_type \in HintClasses(hint)

\* C7: with is_pep484_tower set, the hint reduced from float is satisfied by
\* piths of type int and float, and the hint reduced from complex by piths
\* of type int, float and complex; with the flag off, float and complex are
\* returned unchanged and only the exact type satisfies them.
C7_NumericTower ==
    (red.n > 0 /\ red.hint \in {"float", "complex"}) =>
        IF red.conf.is_pep484_tower
        THEN /\ Satisfies("int", red.result)
             /\ Satisfies("float", red.result)
             /\ red.hint = "complex" => Satisfies("complex", red.result)
        ELSE /\ red.result = red.hint
             /\ \A t \in PithTypes : Satisfies(t, red.result) <=> t = red.hint

C7_Witness ==
    /\ red.n > 0
    /\ red.hint = "complex"
    /\ red.conf.is_pep484_tower
    /\ red.result # red.hint
    /\ Satisfies("float", red.result)

C9_IrreducibleUnchanged ==
    red.n > 0 =>
        /\ ( /\ red.hint_sign = NoSign
             /\ die_unless_hint(red.hint)
             /\ ~(red.conf.is_pep484_tower /\ red.hint \in {"float", "complex"}) )
           => red.result = red.hint
        /\ ( /\ red.hint_sign = "HintSignTypeVar"
             /\ red.hint # "NoneSingleton"
             /\ get_hint_pep484_typevar_bound_or_none(red.hint) = "no_bound" )
           => red.result = red.hint
        /\ ( /\ red.hint_sign = "HintSignAnnotated"
             /\ red.hint # "NoneSingleton"
             /\ is_hint_pep593_beartype(red.hint) )
           => red.result = red.hint
        /\ ( /\ red.hint_sign \notin
                   {NoSign, "HintSignTypeVar", "HintSignAnnotated",
                    "HintSignNumpyArray", "HintSignType"}
             /\ red.hint # "NoneSingleton"
             /\ ~is_hint_pep484_generic_io(red.hint)
             /\ red.hint_sign \notin HINT_SIGN_TO_REDUCER )
           => red.result = red.hint

C9_Witness ==
    /\ red.n > 0
    /\ red.hint = "Annotated_int_Is"
    /\ red.conf.is_pep484_tower
    /\ red.result = red.hint

\* The branches in the order claimed, with the condition of each.
BranchOrder ==
    <<"no_sign", "none", "typevar", "annotated", "numpy", "subclass", "io",
      "fallback">>

BranchCondition(branch, hint, hint_sign) ==
    CASE branch = "no_sign" -> hint_sign = NoSign
      [] branch = "none" -> hint = "NoneSingleton"
      [] branch = "typevar" -> hint_sign = "HintSignTypeVar"
      [] branch = "annotated" -> hint_sign = "HintSignAnnotated"
      [] branch = "numpy" -> hint_sign = "HintSignNumpyArray"
      [] branch = "subclass" -> hint_sign = "HintSignType"
      [] branch = "io" -> is_hint_pep484_generic_io(hint)
      [] OTHER -> TRUE

\* The rewrite of one branch, applied once.
BranchRewrite(branch, hint, hint_sign, conf) ==
    CASE branch = "no_sign" -> ReduceNoSign(hint, conf).hint
      [] branch = "none" -> "NoneType"
      [] branch = "typevar" -> ReduceTypeVar(hint).hint
      [] branch = "annotated" -> ReduceAnnotated(hint).hint
      [] branch = "numpy" -> ReduceNumpyArray(hint).hint
      [] branch = "subclass" -> ReduceType(hint).hint
      [] branch = "io" -> ReduceGenericIO(hint).hint
      [] OTHER -> ReduceFallback(hint, hint_sign).hint

FirstBranch(hint, hint_sign) ==
    BranchOrder[CHOOSE i \in 1..Len(BranchOrder) :
        /\ BranchCondition(BranchOrder[i], hint, hint_sign)
        /\ \A j \in 1..(i - 1) :
              ~BranchCondition(BranchOrder[j], hint, hint_sign)]

\* C10: the branch that fires is the first one, in the order no sign, None
\* singleton, type variable, annotated, typed array, subclass, IO generic,
\* fallback, whose condition the hint meets, and the result is that branch's
\* rewrite applied once, also when the result meets another branch's
\* condition.
C10_FirstBranchOnce ==
    red.n > 0 =>
        /\ red.branch = FirstBranch(red.hint, red.hint_sign)
        /\ red.result =
              BranchRewrite(red.branch, red.hint, red.hint_sign, red.conf)

C10_Witness ==
    /\ red.n > 0
    /\ red.hint = "Annotated_None_meta"
    /\ red.branch = "annotated"
    /\ red.result = "NoneSingleton"
    /\ BranchCondition("none", red.result, red.hint_sign)

\* C11: one pass of reduction suffices: whenever reduce_hint returns, reducing
\* its result again under the same configuration returns that result.
C11_OnePassSuffices ==
    (red.n > 0 /\ red.result # RaisedHint) =>
        \A hint_sign \in get_hint_pep_sign_or_none(red.result) :
            ReduceHint(red.result, hint_sign, red.conf).hint = red.result

\* The annotated hints.
AnnotatedHints == {hint \in Hints : SignOfHint(hint) = "HintSignAnnotated"}

\* C12: for an annotated hint, reduce_hint returns the annotated class,
\* without any metadata, exactly when the metadata is no beartype validator;
\* when it is one, reduce_hint returns the annotated hint itself.
C12_AnnotatedMetadata ==
    (red.n > 0 /\ red.hint \in AnnotatedHints) =>
        /\ red.result = get_hint_pep593_metahint(red.hint)
              <=> ~is_hint_pep593_beartype(red.hint)
        /\ is_hint_pep593_beartype(red.hint) => red.result = red.hint
        /\ red.result \notin AnnotatedHints \ {red.hint}

C12_Witness ==
    /\ red.n > 0
    /\ red.hint = "Annotated_float_meta"
    /\ red.conf.is_pep484_tower
    /\ red.result = "float"

\* C13: a call of reduce_hint returns a whole hint or raises and returns
\* nothing; for a hint without sign that the numeric tower does not expand,
\* it raises when the hint is not valid and returns the hint itself when the
\* hint is a valid class.
C13_WholeHintOrRaise ==
    red.n > 0 =>
        /\ red.result \in Hints \cup {RaisedHint}
        /\ ( /\ red.hint_sign = NoSign
             /\ ~(red.conf.is_pep484_tower /\ red.hint \in {"float", "complex"}) )
           => /\ ~die_unless_hint(red.hint) => red.result = RaisedHint
              /\ die_unless_hint(red.hint) => red.result = red.hint

C13_Witness ==
    /\ red.n > 0
    /\ red.hint \in InvalidHints
    /\ red.hint_sign = NoSign
    /\ red.conf.is_pep484_tower
    /\ red.result = RaisedHint

(***************************************************************************)
(* Properties of the container check and of the cause finders, checked     *)
(* under SpecCause.                                                        *)
(***************************************************************************)
\* The indices an explanation names, in the order it names them.
RECURSIVE NamedIndices(_)
NamedIndices(cause_str) ==
    IF Len(cause_str) < 2 THEN <<>>
    ELSE IF cause_str[1] = "index"
    THEN <<IF cause_str[2] = "COLOR_TYPE" THEN cause_str[3] ELSE cause_str[2]>>
            \o NamedIndices(Tail(cause_str))
    ELSE NamedIndices(Tail(cause_str))

\* The indices of a path, as an explanation writes them.
StrPath(path) == [k \in DOMAIN path |-> Str(path[k])]

\* The item the wrapper's check of the hint, run with this random integer,
\* rejects.
Violates(pith, hint, random_int) ==
    ~CheckHint(pith, hint, random_int, <<>>).ok

\* The search ran for a sequence hint on a pith of the hint's container type.
SequenceSearched ==
    /\ found.n > 0
    /\ cause.hint.sign \in HINT_SIGNS_SEQUENCE_ARGS_1
    /\ IsInstance(cause.pith, cause.hint.origin)

\* C14: with a random integer r and a pith of the container type with n > 0
\* items, find_cause_sequence_args_1 examines no item but the item r mod n
\* (and the items inside it); when the check run with r rejects that item
\* for the child hint, the explanation names index r mod n first and one
\* index for each level below it, and no other index.
C14_SeededSequenceSampling ==
    (SequenceSearched /\ cause.random_int # RandomIntNone
                      /\ ~IsEmpty(cause.pith)) =>
        LET index == cause.random_int[1] % PithLen(cause.pith)
            hint_child == cause.hint.childs[1]
            cause_str == found.cause.cause_str_or_none
        IN  /\ \A k \in DOMAIN found.examined : found.examined[k][1] = index
            /\ Cardinality({k \in DOMAIN found.examined :
                              Len(found.examined[k]) = 1}) <= 1
            /\ hint_child # HintChildNone =>
                  /\ found.examined # <<>>
                  /\ found.examined[1] = <<index>>
                  /\ Violates(PithItem(cause.pith, index), hint_child,
                              cause.random_int[1]) =>
                        /\ cause_str # NoCauseStr
                        /\ NamedIndices(cause_str)[1] = Str(index)
                        /\ NamedIndices(cause_str) =
                              StrPath(found.examined[Len(found.examined)])

C14_Witness ==
    /\ SequenceSearched
    /\ cause.random_int = <<5>>
    /\ PithLen(cause.pith) = MaxLen
    /\ PithItem(cause.pith, 0) = PithStr
    /\ found.examined = <<(<<2>>)>>
    /\ NamedIndices(found.cause.cause_str_or_none) = <<"2">>

\* C15: whenever the generated check (the container template, applied at
\* every depth with one random integer) rejects the pith, the cause found
\* for the same pith, hint and random integer has an explanation.
C15_RejectedPithHasExplanation ==
    (checked.n > 0 /\ found.n > 0 /\ ~checked.ok) =>
        found.cause.cause_str_or_none # NoCauseStr

C15_Witness ==
    /\ checked.n > 0
    /\ found.n > 0
    /\ ~checked.ok
    /\ cause.hint = HintList(HintList(HintInt))
    /\ cause.random_int = <<1>>
    /\ checked.evaluated = <<(<<1>>), <<1, 1>> >>
    /\ found.examined = checked.evaluated
    /\ found.cause.cause_str_or_none # NoCauseStr

\* The pith satisfies the hint at every depth and every index.
RECURSIVE DeepSatisfies(_, _)
DeepSatisfies(pith, hint) ==
    IF hint = HintChildNone THEN TRUE
    ELSE IF hint.sign = NoSign THEN IsInstance(pith, hint.origin)
    ELSE IF hint.sign = "HintSignTupleFixed"
    THEN /\ IsInstance(pith, hint.origin)
         /\ PithLen(pith) = Len(hint.childs)
         /\ \A i \in DOMAIN hint.childs :
               DeepSatisfies(PithItem(pith, i - 1), hint.childs[i])
    ELSE /\ IsInstance(pith, hint.origin)
         /\ \A i \in 1..PithLen(pith) :
               DeepSatisfies(PithItem(pith, i - 1), hint.childs[1])

\* The item satisfies the child hint: for the check run with the random
\* integer when there is one, at every depth and index otherwise.
ItemSatisfies(item, hint_child, random_int) ==
    IF random_int = RandomIntNone THEN DeepSatisfies(item, hint_child)
    ELSE ~Violates(item, hint_child, random_int[1])

\* C16: for a pith of the container type, find_cause_sequence_args_1 returns
\* the input cause itself, without explanation, when the pith is empty, when
\* the child hint is ignorable, and when no examined item yields an
\* explanation; it gives no explanation when every examined item satisfies
\* the child hint.
C16_ValidSequenceCauseUnchanged ==
    SequenceSearched =>
        LET hint_child == cause.hint.childs[1]
            Examined == {PithEnumerator(cause)[k] :
                            k \in DOMAIN PithEnumerator(cause)}
            NoneExplained ==
                \A index \in Examined :
                    find_cause(Permute(cause, PithItem(cause.pith, index),
                                       hint_child, <<index>>), <<index>>)
                        .cause.cause_str_or_none = NoCauseStr
            AllSatisfy ==
                \A index \in Examined :
                    ItemSatisfies(PithItem(cause.pith, index), hint_child,
                                  cause.random_int)
        IN  /\ (IsEmpty(cause.pith) \/ hint_child = HintChildNone) =>
                  found.cause = cause /\ found.examined = <<>>
            /\ (~IsEmpty(cause.pith) /\ hint_child # HintChildNone) =>
                  /\ NoneExplained => found.cause = cause
                  /\ AllSatisfy => found.cause.cause_str_or_none = NoCauseStr

C16_Witness ==
    /\ SequenceSearched
    /\ cause.random_int = RandomIntNone
    /\ cause.hint = HintSequence(HintInt)
    /\ PithLen(cause.pith) = MaxLen
    /\ found.examined = [k \in 1..MaxLen |-> <<k - 1>>]
    /\ found.cause = cause

\* C17: for a fixed-length tuple hint other than Tuple[()] and a tuple pith
\* whose length differs from the number of child hints,
\* find_cause_tuple_fixed returns an explanation that names the length of
\* the pith and the number of child hints, names no index, and examines no
\* item.
C17_TupleLengthMismatch ==
    ( /\ found.n > 0
      /\ cause.hint.sign = "HintSignTupleFixed"
      /\ ~is_hint_pep484585_tuple_empty(cause.hint)
      /\ cause.pith.type = "tuple"
      /\ PithLen(cause.pith) # Len(cause.hint.childs) ) =>
        LET cause_str == found.cause.cause_str_or_none
            n == Len(cause_str)
        IN  /\ cause_str # NoCauseStr
            /\ n >= 4
            /\ cause_str[n - 3] = "length"
            /\ cause_str[n - 2] = Str(PithLen(cause.pith))
            /\ cause_str[n] = Str(Len(cause.hint.childs))
            /\ NamedIndices(cause_str) = <<>>
            /\ found.examined = <<>>
            /\ found.cause.pith = cause.pith

C17_Witness ==
    /\ found.n > 0
    /\ cause.hint = HintTupleFixed(<<HintInt, HintStr, HintInt>>)
    /\ cause.pith = Pith("tuple", <<PithInt, PithStr>>)
    /\ cause.random_int = <<0>>
    /\ found.examined = <<>>
    /\ found.cause.cause_str_or_none # NoCauseStr

\* The pith at the end of a path.
RECURSIVE PithAt(_, _)
PithAt(pith, path) ==
    IF path = <<>> THEN pith
    ELSE PithAt(PithItem(pith, Head(path)), Tail(path))

\* The words naming, from the outermost container inwards, the type of each
\* container on a path and the index taken in it.
RECURSIVE Attribution(_, _, _)
Attribution(pith, path, is_color) ==
    IF path = <<>> THEN <<>>
    ELSE color_type(pith.type, is_color) \o <<"index">>
            \o color_type(Str(Head(path)), is_color) \o <<"item">>
            \o Attribution(PithItem(pith, Head(path)), Tail(path), is_color)

\* C18: an explanation found inside nested containers starts with, for each
\* level from the outermost to the innermost, the type of that level's
\* container and the index of the item taken in it, followed by the
\* explanation of the innermost item, which names no index.
C18_NestedAttribution ==
    (found.n > 0 /\ found.examined # <<>>
                 /\ found.cause.cause_str_or_none # NoCauseStr) =>
        LET culprit == found.examined[Len(found.examined)]
            cause_str == found.cause.cause_str_or_none
            prefix == Attribution(cause.pith, culprit, cause.conf.is_color)
        IN  /\ Len(cause_str) > Len(prefix)
            /\ SubSeq(cause_str, 1, Len(prefix)) = prefix
            /\ NamedIndices(cause_str) = StrPath(culprit)
            /\ found.cause.pith = PithAt(cause.pith, culprit)

C18_Witness ==
    /\ found.n > 0
    /\ cause.hint = HintTupleFixed(<<HintInt, HintSequence(HintStr)>>)
    /\ cause.pith =
          Pith("tuple", <<PithInt, Pith("list", <<PithStr, PithInt, PithStr>>)>>)
    /\ cause.random_int = RandomIntNone
    /\ ~cause.conf.is_color
    /\ SubSeq(found.cause.cause_str_or_none, 1, 8) =
          <<"tuple", "index", "1", "item", "list", "index", "1", "item">>
    /\ found.cause.pith = PithInt

\* C19: the container check accepts the pith exactly when the pith is an
\* instance of the hint's container type and is empty or has its sampled
\* item satisfy the child hint; an empty container of that type is accepted,
\* and no child check is evaluated for an empty container or for a pith of
\* another type.
C19_ContainerCheck ==
    ( /\ checked.n > 0
      /\ cause.hint.sign \in HINT_SIGNS_SEQUENCE_ARGS_1
                                \cup HINT_SIGNS_REITERABLE_ARGS_1
      /\ cause.hint.childs[1] # HintChildNone ) =>
        IF ~IsInstance(cause.pith, cause.hint.origin)
        THEN ~checked.ok /\ checked.evaluated = <<>>
        ELSE IF IsEmpty(cause.pith)
        THEN checked.ok /\ checked.evaluated = <<>>
        ELSE LET index == IF cause.hint.sign \in HINT_SIGNS_SEQUENCE_ARGS_1
                          THEN cause.random_int[1] % PithLen(cause.pith)
                          ELSE 0
             IN  /\ checked.ok <=>
                       ~Violates(PithItem(cause.pith, index),
                                 cause.hint.childs[1], cause.random_int[1])
                 /\ checked.evaluated[1] = <<index>>
                 /\ \A k \in DOMAIN checked.evaluated :
                       checked.evaluated[k][1] = index

C19_Witness ==
    /\ checked.n > 0
    /\ cause.hint = HintCollection(HintInt)
    /\ cause.pith = Pith("list", <<PithInt, PithStr>>)
    /\ cause.random_int = <<1>>
    /\ checked.ok
    /\ checked.evaluated = <<(<<0>>)>>

\* C20: the two dictionaries of a memoized callable only grow: a call of
\* the wrapper removes no key from either and replaces no stored value.
C20_DictsAppendOnly ==
    [][ /\ \A k \in DOMAIN params_flat_to_return_value :
              /\ k \in DOMAIN params_flat_to_return_value'
              /\ params_flat_to_return_value'[k] =
                    params_flat_to_return_value[k]
        /\ \A k \in DOMAIN params_flat_to_exception :
              /\ k \in DOMAIN params_flat_to_exception'
              /\ params_flat_to_exception'[k] =
                    params_flat_to_exception[k] ]_vars

C20_Witness ==
    /\ n_calls = MaxCalls
    /\ last.path = "hit_raise"
    /\ last.params_flat \in DOMAIN params_flat_to_exception
    /\ params_flat_to_exception[last.params_flat].id = 1

(***************************************************************************)
(* Further properties of callable_cached, checked under SpecCache.         *)
(***************************************************************************)
\* C21: a call whose hashable key is in neither dictionary calls func
\* exactly once, stores what that call returned or raised under the key, and
\* hands exactly that value or exception object to the caller.
C21_MissInvokesOnce ==
    [][ ( /\ CallDone
          /\ IsHashable(last'.params_flat)
          /\ last'.params_flat \notin DOMAIN params_flat_to_return_value
          /\ last'.params_flat \notin DOMAIN params_flat_to_exception ) =>
          LET key == last'.params_flat
              first == DirectOutcome(last'.direct, n_invoked + 1)
          IN  /\ last'.invoked = 1
              /\ last'.outcome = first
              /\ first.kind = "return" =>
                    /\ key \in DOMAIN params_flat_to_return_value'
                    /\ params_flat_to_return_value'[key] = first.what
              /\ first.kind = "raise" =>
                    /\ key \in DOMAIN params_flat_to_exception'
                    /\ params_flat_to_exception'[key] =
                          [what |-> first.what, id |-> first.id] ]_vars

(***************************************************************************)
(* Properties of two concurrent calls, checked under SpecRace.             *)
(***************************************************************************)
\* C22: when both callers have run the wrapper concurrently with the same
\* hashable arguments, whatever the interleaving of their statements, each
\* got the outcome of func for these arguments, each called func at most
\* once, and the dictionaries hold one entry for the key, the outcome of
\* func.
C22_RaceBenign ==
    ( /\ \A t \in Threads : th[t].pc = "done"
      /\ IsHashable(ParamsFlat(racing.call)) ) =>
        LET params_flat == ParamsFlat(racing.call)
            direct == FuncCall(racing.call, racing.body, 0)
        IN  /\ \A t \in Threads :
                  /\ th[t].outcome.kind = direct.kind
                  /\ th[t].outcome.what = direct.what
                  /\ th[t].invoked <= 1
            /\ IF direct.kind = "return"
               THEN /\ DOMAIN params_flat_to_return_value = {params_flat}
                    /\ params_flat_to_return_value[params_flat] = direct.what
                    /\ DOMAIN params_flat_to_exception = {}
               ELSE /\ DOMAIN params_flat_to_exception = {params_flat}
                    /\ params_flat_to_exception[params_flat].what = direct.what
                    /\ DOMAIN params_flat_to_return_value = {}

(***************************************************************************)
(* Further properties of the violation cause finders.                      *)
(***************************************************************************)
\* The indices of the items of the root pith the finder examined, in the
\* order it examined them.
TopExamined ==
    LET top == SelectSeq(found.examined, LAMBDA path : Len(path) = 1)
    IN  [k \in DOMAIN top |-> top[k][1]]

\* The indices 0, 1, ..., index.
UpTo(index) == [k \in 1..(index + 1) |-> k - 1]

\* C23: without a random integer, find_cause_sequence_args_1 examines the
\* items of a non-empty pith of the container type in increasing index
\* order and stops at the first one whose cause has an explanation: the
\* explanation names first the lowest index whose item violates the child
\* hint, no item after that index is examined, and every item is examined
\* when none violates it.
C23_UnseededFirstViolation ==
    ( /\ SequenceSearched
      /\ cause.random_int = RandomIntNone
      /\ ~IsEmpty(cause.pith)
      /\ cause.hint.childs[1] # HintChildNone ) =>
        LET hint_child == cause.hint.childs[1]
            Violating ==
                {index \in 0..(PithLen(cause.pith) - 1) :
                    ~DeepSatisfies(PithItem(cause.pith, index), hint_child)}
        IN  IF Violating = {}
            THEN /\ TopExamined = UpTo(PithLen(cause.pith) - 1)
                 /\ found.cause = cause
            ELSE LET lowest == CHOOSE index \in Violating :
                                  \A other \in Violating : index <= other
                 IN  /\ TopExamined = UpTo(lowest)
                     /\ found.cause.cause_str_or_none # NoCauseStr
                     /\ NamedIndices(found.cause.cause_str_or_none)[1]
                            = Str(lowest)
                     /\ \A k \in DOMAIN found.examined :
                            found.examined[k][1] <= lowest

C23_Witness ==
    /\ SequenceSearched
    /\ cause.random_int = RandomIntNone
    /\ cause.pith = Pith("list", <<PithInt, PithStr, PithStr>>)
    /\ cause.hint = HintSequence(HintInt)
    /\ TopExamined = <<0, 1>>
    /\ NamedIndices(found.cause.cause_str_or_none) = <<"1">>

\* The words of an explanation.
Words(cause_str) == {cause_str[k] : k \in DOMAIN cause_str}

\* C24: in find_cause_sequence_args_1 and in find_cause_tuple_fixed alike,
\* when the pith is not an instance of the class the hint originates from,
\* the shallow cause of find_cause_type_instance_origin, with its
\* explanation, is what is returned: no item is examined, no child cause is
\* derived, no length is compared and nothing below is searched.
C24_ShallowCauseFirst ==
    ( /\ found.n > 0
      /\ cause.hint.sign \in
            HINT_SIGNS_SEQUENCE_ARGS_1 \cup {"HintSignTupleFixed"}
      /\ ~IsInstance(cause.pith, cause.hint.origin) ) =>
        /\ found.cause = find_cause_type_instance_origin(cause)
        /\ found.cause.cause_str_or_none # NoCauseStr
        /\ found.examined = <<>>
        /\ found.permuted = <<>>
        /\ found.written = <<>>
        /\ found.raised = NoRaise
        /\ Words(found.cause.cause_str_or_none)
                \cap {"length", "non-empty", "index", "item"} = {}

C24_Witness ==
    /\ found.n > 0
    /\ cause.hint = HintTupleFixed(<<HintInt, HintStr>>)
    /\ cause.pith = Pith("list", <<PithInt, PithStr>>)
    /\ found.examined = <<>>
    /\ found.cause.cause_str_or_none
            = <<"list", "(", "int", "str", ")", "not", "instance", "of",
                "tuple">>

\* The search ran for a fixed-length tuple hint on a tuple of as many items
\* as the hint has child hints.
TupleSearched ==
    /\ found.n > 0
    /\ cause.hint.sign = "HintSignTupleFixed"
    /\ IsInstance(cause.pith, cause.hint.origin)
    /\ PithLen(cause.pith) = Len(cause.hint.childs)

\* C25: for a fixed-length tuple hint and a tuple of the same length,
\* find_cause_tuple_fixed visits the positions in increasing index order
\* with or without a random integer, examines no position whose child hint
\* is ignorable, stops at and names first the lowest index whose item
\* violates its unignorable child hint, and returns the input cause itself
\* when the item of every position passes.
C25_TupleFixedInOrder ==
    TupleSearched =>
        LET Unignorable ==
                {index \in 0..(PithLen(cause.pith) - 1) :
                    cause.hint.childs[index + 1] # HintChildNone}
            Violating ==
                {index \in Unignorable :
                    ~ItemSatisfies(PithItem(cause.pith, index),
                                   cause.hint.childs[index + 1],
                                   cause.random_int)}
            Visited == {TopExamined[k] : k \in DOMAIN TopExamined}
        IN  /\ \A k \in DOMAIN TopExamined :
                  k > 1 => TopExamined[k - 1] < TopExamined[k]
            /\ Visited \subseteq Unignorable
            /\ IF Violating = {}
               THEN /\ found.cause = cause
                    /\ Visited = Unignorable
               ELSE LET lowest == CHOOSE index \in Violating :
                                     \A other \in Violating : index <= other
                    IN  /\ Visited = {index \in Unignorable : index <= lowest}
                        /\ found.cause.cause_str_or_none # NoCauseStr
                        /\ NamedIndices(found.cause.cause_str_or_none)[1]
                               = Str(lowest)

C25_Witness ==
    /\ TupleSearched
    /\ cause.hint = HintTupleFixed(<<HintChildNone, HintStr>>)
    /\ cause.pith = Pith("tuple", <<PithStr, PithInt>>)
    /\ cause.random_int = <<5>>
    /\ TopExamined = <<1>>
    /\ NamedIndices(found.cause.cause_str_or_none) = <<"1">>

\* C26: a finder never changes the cause it was given: the call leaves the
\* input cause's pith, hint, random integer, configuration and explanation
\* as they were, every explanation it assigns goes to a cause object other
\* than the input cause and than every child cause derived, and every
\* child cause is its parent as the parent was given, but for the pith and
\* the hint (and for being another object), so all the child causes of one
\* parent are derived from the same parent state.
C26_InputCauseUntouched ==
    [][ found'.n > found.n =>
          /\ cause' = cause
          /\ \A k \in DOMAIN found'.permuted :
                LET parent == found'.permuted[k].parent
                    child == found'.permuted[k].child
                IN  /\ child = [parent EXCEPT !.pith = child.pith,
                                              !.hint = child.hint,
                                              !.obj = child.obj]
                    /\ child.random_int = cause.random_int
                    /\ child.conf = cause.conf
                    /\ child.obj # parent.obj
                    /\ \A j \in DOMAIN found'.permuted :
                          found'.permuted[j].parent.obj = parent.obj =>
                              found'.permuted[j].parent = parent
                    /\ \A w \in DOMAIN found'.written :
                          found'.written[w].obj \notin {parent.obj, child.obj}
          /\ \A w \in DOMAIN found'.written :
                found'.written[w].obj # cause.obj ]_vars

\* Two child causes of one parent were derived, the second after the first
\* was searched without an explanation, and the explanation of the second
\* was assigned to its cause object once at each level.
C26_Witness ==
    /\ found.n > 0
    /\ cause.pith = Pith("tuple", <<PithInt, Pith("list", <<PithStr, PithInt>>)>>)
    /\ cause.hint = HintTupleFixed(<<HintInt, HintSequence(HintStr)>>)
    /\ cause.random_int = RandomIntNone
    /\ Len(found.permuted) = 4
    /\ Len(found.written) = 2
    /\ found.written[2] = found.cause
    /\ found.cause.cause_str_or_none # NoCauseStr

\* The nesting depth of a hint.
RECURSIVE HintDepth(_)
HintDepth(hint) ==
    IF hint.childs = <<>> THEN 0
    ELSE LET Depths == {HintDepth(hint.childs[i]) : i \in DOMAIN hint.childs}
         IN  1 + CHOOSE depth \in Depths : \A other \in Depths : other <= depth

\* C27: for a pith and a hint whose sign, at every depth, is one a finder
\* is written for, cause.find_cause() has an outcome, the outcome is a
\* ViolationCause of the same random integer and configuration, with or
\* without an explanation, and no exception; the search is bounded: no item
\* is examined twice and none lies deeper than the hint is nested.
C27_FinderReturnsCause ==
    HasFinder(cause.hint) =>
        /\ found.n = 0 => ENABLED FindCause
        /\ found.n > 0 =>
              /\ found.raised = NoRaise
              /\ DOMAIN found.cause =
                    {"pith", "hint", "random_int", "conf",
                     "cause_str_or_none", "obj"}
              /\ found.cause.random_int = cause.random_int
              /\ found.cause.conf = cause.conf
              /\ \/ found.cause = cause
                 \/ found.cause.cause_str_or_none # NoCauseStr
              /\ \A k \in DOMAIN found.examined :
                    /\ Len(found.examined[k]) <= HintDepth(cause.hint)
                    /\ \A j \in DOMAIN found.examined :
                          found.examined[j] = found.examined[k] => j = k

C27_Witness ==
    /\ found.n > 0
    /\ cause.hint = HintList(HintList(HintInt))
    /\ cause.pith = Pith("list", <<Pith("list", <<PithInt, PithInt>>),
                                   Pith("list", <<PithInt, PithInt>>)>>)
    /\ cause.random_int = RandomIntNone
    /\ Len(found.examined) = 6
    /\ found.raised = NoRaise
    /\ found.cause = cause

(***************************************************************************)
(* Properties of the beartypistry.                                         *)
(***************************************************************************)
\* C28: over any sequence of calls of register_typistry_type with types, no
\* call raises the exception of Beartypistry.__setitem__ (the name to store
\* is one the beartypistry holds already), and no call changes or removes
\* what the beartypistry holds under a name.
C28_NoReRegistration ==
    [][ n_calls' > n_calls =>
          /\ ~( /\ last'.outcome.kind = "raise"
                /\ last'.outcome.what = TYPISTRY_EXCEPTION )
          /\ \A hint_name \in DOMAIN bear_typistry :
                /\ hint_name \in DOMAIN bear_typistry'
                /\ bear_typistry'[hint_name] = bear_typistry[hint_name] ]_vars

(***************************************************************************)
(* Further properties of the key of callable_cached.                       *)
(***************************************************************************)
\* C29: two calls of the wrapper that differ in their positional arguments,
\* in the names of their keyword arguments in the order passed or in the
\* values of their keyword arguments have different keys: a call that
\* follows a different call never has the key of that call.
C29_KeyDeterminesCall ==
    [][ (CallDone /\ last.n > 0 /\ last'.call # last.call) =>
            last'.params_flat # last.params_flat ]_vars

(***************************************************************************)
(* Further properties of the sampled index.                                *)
(***************************************************************************)
\* The item at this path was sampled with the random integer of the cause:
\* its container has at least one item and its index is the random integer
\* modulo the length of the container, an index of the container.
SampledAt(path) ==
    LET container == PithAt(cause.pith, SubSeq(path, 1, Len(path) - 1))
        index == path[Len(path)]
    IN  /\ PithLen(container) >= 1
        /\ index = cause.random_int[1] % PithLen(container)
        /\ index \in 0..(PithLen(container) - 1)

\* C30: for a sequence hint and a random integer, neither the generated
\* check nor find_cause_sequence_args_1 computes the index of an empty
\* container, so neither raises ZeroDivisionError; every index either
\* computes is the random integer modulo the length of the container, one of
\* 0..length-1; and the cause finder samples the very items the check
\* sampled.
C30_SampledIndexInRange ==
    ( /\ cause.hint.sign \in HINT_SIGNS_SEQUENCE_ARGS_1
      /\ cause.random_int # RandomIntNone ) =>
        /\ checked.n > 0 =>
              /\ checked.raised = NoRaise
              /\ \A k \in DOMAIN checked.evaluated :
                    SampledAt(checked.evaluated[k])
        /\ found.n > 0 =>
              /\ found.raised = NoRaise
              /\ \A k \in DOMAIN found.examined :
                    SampledAt(found.examined[k])
        /\ (checked.n > 0 /\ found.n > 0) =>
              checked.evaluated = found.examined

C30_Witness ==
    /\ checked.n > 0
    /\ found.n > 0
    /\ cause.hint = HintList(HintList(HintInt))
    /\ cause.random_int = <<2147483647>>
    /\ cause.pith = Pith("list", <<Pith("list", <<>>),
                                   Pith("list", <<PithInt, PithStr>>)>>)
    /\ checked.evaluated = <<(<<1>>), <<1, 1>>>>
    /\ found.examined = <<(<<1>>), <<1, 1>>>>
    /\ ~checked.ok

=============================================================================
